---- MODULE Spec2Model ----
(***************************************************************************)
(* Model of the invoice / stock analytics chatbot: the two record sets,    *)
(* the ambient session, the tool catalog (data access functions with the   *)
(* authorization gate of the user-scoped tools) and the per-turn loop of   *)
(* the chat route.                                                         *)
(*                                                                         *)
(* Conventions.  An optional argument is a sequence: << >> is "absent"     *)
(* (undefined), <<v>> is "present with value v".  A calendar date is a     *)
(* day number; NullDate is SQL NULL.  A message or URL built by string     *)
(* concatenation is the sequence of its pieces.                            *)
(***************************************************************************)
EXTENDS Integers, Sequences, FiniteSets, TLC

\* ------------------------------------------------------------------------
\* Bounds of the model
\* ------------------------------------------------------------------------
MaxInvoiceRows == 3          \* invoice lines in the store of one behaviour
MaxStockRows == 2            \* stock rows in the store of one behaviour
MaxToolCalls == 2            \* tool invocations one model step may request
MaxSheetRows == 2            \* rows in the sheet of one run of the stock import
MaxMessages == 8             \* messages of the chat page before the user stops asking
MaxFailures == 5             \* turns that fail in a row before the user gives up

\* ------------------------------------------------------------------------
\* Calendar (simplified: every month has DaysPerMonth days)
\* ------------------------------------------------------------------------
DaysPerMonth == 30
MonthsPerYear == 12
DaysPerYear == DaysPerMonth * MonthsPerYear
Today == 3 * DaysPerYear
NullDate == 0
NullNum == 0 - 1             \* SQL NULL in a numeric column (no quantity is negative)

None == << >>
Some(v) == <<v>>
IsSome(o) == Len(o) > 0
Val(o) == o[1]

NullText == "<null>"

\* ------------------------------------------------------------------------
\* Program constants
\* ------------------------------------------------------------------------
maxSteps == 7
maxConsecutiveErrors == 2
INVOICE_PDF_BUCKET_URL == "https://ainoc-chatbot-files-bucket.s3.us-east-2.amazonaws.com"
DEFAULT_LIMIT == 50
MAX_LIMIT == 200

MsgLogin == "You must be logged in to use this feature. Please sign in first."
MsgAuthFailed == "Authentication failed. Please sign in again."
MsgRequired == "Billing document ID is required."

\* ------------------------------------------------------------------------
\* The record sets
\* ------------------------------------------------------------------------
Row(id, doc, item, d, code, party, city, mat, design, net, qty, region, agent, endUse) ==
    [id |-> id, billingDocument |-> doc, item |-> item, invoiceDate |-> d,
     billToPartyCode |-> code, billToParty |-> party, billToPartyCity |-> city,
     material |-> mat, ainocularDesign |-> design, ainocularShade |-> "SH-1",
     netAmountInr |-> net, billedQuantity |-> qty, basicPrice |-> 10,
     regionZone |-> region, agentCode |-> agent, agentName |-> agent, endUse |-> endUse]

InvoiceUniverse ==
    { Row(1, "D1", 10, Today - 10,          "ACME",   "Acme Ltd", "Pune",  "M100", "DSN-A",
          100, 30, "North", "AG1", "Curtains"),
      Row(2, "D1", 20, Today - 10,          "ACME",   "Acme Ltd", "Pune",  "M200", "DSN-A",
          50,  60, "North", "AG1", "Upholstery"),
      Row(3, "D2", 10, Today - DaysPerYear, "BOLT",   "Bolt Co",  "Delhi", "M100", "DSN-A",
          200, 10, "South", "AG2", "Curtains"),
      Row(4, "D3", 10, NullDate,            "ACME",   "Acme Ltd", "Pune",  "M300", "DSN-B",
          70,  5,  "North", "AG1", "Curtains"),
      Row(5, "D4", 10, Today - 400,         NullText, "Walk-in",  "Delhi", "M200", "DSN-A",
          100, 20, "South", "AG2", "Upholstery"),
      Row(6, "D5", 10, Today - 20,          "BOLT",   "Bolt Co",  "Delhi", "M200", "DSN-A",
          10,  1,  "South", "AG2", "Upholstery") }

StockRow(mat, qty, price, lead, repl, design, fabric) ==
    [material |-> mat, stockInMeters |-> qty, basicPrice |-> price,
     leadTimeDays |-> lead, replenishmentDate |-> repl, ainocularDesign |-> design,
     fabricType |-> fabric, description |-> fabric]

StockUniverse ==
    { StockRow("M100", 0,   10, 5,  Today + 5, "DSN-A", "Velvet"),
      StockRow("M200", 10,  20, 40, NullDate,  "DSN-A", "Linen"),
      StockRow("M300", NullNum, 10, 7, NullDate, "DSN-B", "Velvet"),
      StockRow("M400", 500, 5,  0,  Today + 9, "DSN-B", "Linen") }

Users == {"ACME", "BOLT"}

\* ------------------------------------------------------------------------
\* Sequences of the elements of a set
\* ------------------------------------------------------------------------
RECURSIVE Perms(_)
Perms(S) ==
    IF S = {} THEN { << >> }
    ELSE UNION { { << x >> \o p : p \in Perms(S \ {x}) } : x \in S }

\* every order a query "ORDER BY Key DESC" may return the rows of S in
OrderingsDesc(S, Key(_)) ==
    { f \in Perms(S) : \A i \in 1..(Len(f) - 1) : Key(f[i]) >= Key(f[i + 1]) }

OrderingsAsc(S, Key(_)) ==
    { f \in Perms(S) : \A i \in 1..(Len(f) - 1) : Key(f[i]) <= Key(f[i + 1]) }

Min(a, b) == IF a < b THEN a ELSE b
Max(a, b) == IF a > b THEN a ELSE b

\* LIMIT n OFFSET k of the database (n >= 0, k >= 0)
LimitOffset(s, n, k) == SubSeq(s, k + 1, Min(Len(s), k + n))

\* Array.prototype.slice(0, n)
Slice0(s, n) ==
    IF n >= 0 THEN SubSeq(s, 1, Min(Len(s), n))
    ELSE SubSeq(s, 1, Max(0, Len(s) + n))

RECURSIVE SumOver(_, _)
SumOver(S, fld) ==
    IF S = {} THEN 0
    ELSE LET r == CHOOSE x \in S : TRUE
         IN  r[fld] + SumOver(S \ {r}, fld)

Ids(S) == { r.id : r \in S }
SeqIds(s) == { s[i].id : i \in 1..Len(s) }

\* ------------------------------------------------------------------------
\* Inputs of the tools
\* ------------------------------------------------------------------------
\* A date argument: undefined, null, "", a string Date cannot parse, or a
\* parseable string that writes calendar day d and whose instant falls
\* `shift` days later in UTC (a time of day with a zone offset).
DUndef == [k |-> "undefined", d |-> 0, shift |-> 0]
DNull == [k |-> "null", d |-> 0, shift |-> 0]
DEmpty == [k |-> "empty", d |-> 0, shift |-> 0]
DInvalid == [k |-> "invalid", d |-> 0, shift |-> 0]
DDate(d) == [k |-> "parseable", d |-> d, shift |-> 0]
DDateTime(d) == [k |-> "parseable", d |-> d, shift |-> 1]

DateInputs ==
    {DUndef, DNull, DEmpty, DInvalid, DDate(Today - DaysPerYear), DDateTime(Today - 11)}

LimitInputs == {None, Some(-1), Some(0), Some(1), Some(2), Some(MAX_LIMIT + 1)}
OffsetInputs == {None, Some(-1), Some(0), Some(1)}
MonthInputs == {None, Some(-1), Some(0), Some(1), Some(12), Some(25)}
DocInputs == {"", "  ", "D1", " D1 ", "D2", "D9"}
ItemInputs == {None, Some(10), Some(20)}

\* String.prototype.trim on the billing document inputs
Trim(s) == CASE s = "  " -> ""
             [] s = " D1 " -> "D1"
             [] s = " M100 " -> "M100"
             [] OTHER -> s

\* ------------------------------------------------------------------------
\* normalizeDate and getSafePagination
\* ------------------------------------------------------------------------
normalizeDateMutKeepInvalid(value) ==
    IF value.k \in {"undefined", "null", "empty"} THEN None
    ELSE IF value.k = "invalid" THEN Some(Today)
    ELSE Some(value.d + value.shift)

normalizeDate(value) ==
    IF value.k \in {"undefined", "null", "empty"} THEN None
    ELSE IF value.k = "invalid" THEN None
    ELSE Some(value.d + value.shift)

getSafePaginationMutNoClamp(limit, offset) ==
    [limit  |-> IF IsSome(limit) /\ Val(limit) # 0 /\ Val(limit) > 0
                THEN Val(limit) ELSE DEFAULT_LIMIT,
     offset |-> IF IsSome(offset) /\ Val(offset) # 0 /\ Val(offset) > 0
                THEN Val(offset) ELSE 0]

getSafePagination(limit, offset) ==
    [limit  |-> IF IsSome(limit) /\ Val(limit) # 0 /\ Val(limit) > 0
                THEN Min(Val(limit), MAX_LIMIT) ELSE DEFAULT_LIMIT,
     offset |-> IF IsSome(offset) /\ Val(offset) # 0 /\ Val(offset) > 0
                THEN Val(offset) ELSE 0]

\* gte(invoice.invoiceDate, fromDate) / lte(invoice.invoiceDate, toDate),
\* each pushed only when the normalized bound is defined; a comparison with
\* a NULL invoiceDate is not true in SQL
DateFiltersMutNoUpper(r, fromDate, toDate) ==
    IsSome(fromDate) => (r.invoiceDate # NullDate /\ r.invoiceDate >= Val(fromDate))

DateFilters(r, fromDate, toDate) ==
    /\ IsSome(fromDate) => (r.invoiceDate # NullDate /\ r.invoiceDate >= Val(fromDate))
    /\ IsSome(toDate) => (r.invoiceDate # NullDate /\ r.invoiceDate <= Val(toDate))

\* ORDER BY invoice_date DESC: NULL dates sort first, equal dates in any order
DateKey(r) == IF r.invoiceDate = NullDate THEN Today + DaysPerYear ELSE r.invoiceDate

\* ------------------------------------------------------------------------
\* Authorization scoping
\* ------------------------------------------------------------------------
SessNone == [kind |-> "none", name |-> ""]
SessNoUser == [kind |-> "nouser", name |-> ""]
SessThrows == [kind |-> "throws", name |-> ""]
SessUser(u) == [kind |-> "user", name |-> u]
Sessions == {SessNone, SessNoUser, SessThrows} \cup {SessUser(u) : u \in Users}

getAuthenticatedUserMutFailOpen(sess) ==
    IF sess.kind = "throws"
    THEN [authenticated |-> FALSE, error |-> <<MsgAuthFailed>>, name |-> "", billToPartyCode |-> ""]
    ELSE IF sess.kind = "none"
    THEN [authenticated |-> FALSE, error |-> <<MsgLogin>>, name |-> "", billToPartyCode |-> ""]
    ELSE [authenticated |-> TRUE, error |-> << >>, name |-> sess.name, billToPartyCode |-> sess.name]

getAuthenticatedUser(sess) ==
    IF sess.kind = "throws"
    THEN [authenticated |-> FALSE, error |-> <<MsgAuthFailed>>, name |-> "", billToPartyCode |-> ""]
    ELSE IF sess.kind \in {"none", "nouser"}
    THEN [authenticated |-> FALSE, error |-> <<MsgLogin>>, name |-> "", billToPartyCode |-> ""]
    ELSE [authenticated |-> TRUE, error |-> << >>, name |-> sess.name, billToPartyCode |-> sess.name]

\* eq(invoice.billToPartyCode, user.billToPartyCode)
OwnedByMutAnyOwner(r, user) == TRUE

OwnedBy(r, user) == r.billToPartyCode # NullText /\ r.billToPartyCode = user.billToPartyCode

\* ------------------------------------------------------------------------
\* Results of a tool call
\* ------------------------------------------------------------------------
\* outcome  "returned" or "threw" (the promise of execute rejected)
\* success  "true" / "false", or "none" for a tool that returns bare rows
\* error    the message, << >> when there is none
\* isNull   the payload (data or pdfUrl) is null
\* data     the rows or groups returned, in order
\* src      ids of the invoice lines returned or aggregated into the result
\* reads / stockReads   queries issued against invoice / stock
\* limit / offset       the effective LIMIT and OFFSET of the query
R0 ==
    [outcome |-> "returned", success |-> "none", error |-> << >>, isNull |-> FALSE,
     data |-> << >>, pdfUrl |-> << >>, src |-> {}, reads |-> 0, stockReads |-> 0,
     limit |-> None, offset |-> None, owner |-> ""]

Threw(reads, stockReads) ==
    [R0 EXCEPT !.outcome = "threw", !.isNull = TRUE, !.reads = reads, !.stockReads = stockReads]

\* { success: false, error, data: null } / { success: false, error, pdfUrl: null }
Failure(error, reads) ==
    [R0 EXCEPT !.success = "false", !.error = error, !.isNull = TRUE, !.reads = reads]

\* ------------------------------------------------------------------------
\* Arguments of a tool call (a tool reads only the fields of its schema)
\* ------------------------------------------------------------------------
A0 ==
    [fromDate |-> DUndef, toDate |-> DUndef, limit |-> None, offset |-> None,
     months |-> None, billingDocument |-> "", item |-> None, id |-> None,
     billToPartyCode |-> None, billToParty |-> None, material |-> None,
     ainocularDesign |-> None, ainocularShade |-> None, regionZone |-> None,
     years |-> None, regions |-> {}, city |-> "", type |-> "", monthsInactive |-> None,
     sku |-> None, minQuantity |-> None, groupBy |-> None, daysAhead |-> None,
     minLeadTimeDays |-> None, sortOrder |-> None, minStock |-> None, maxStock |-> None,
     design |-> None, fabricType |-> None, coverageMonthsThreshold |-> None]

\* GROUP BY: one group per key value, with the aggregates the tools select
Group(S, k) ==
    [key |-> k, ids |-> Ids(S), count |-> Cardinality(S),
     totalNetAmount |-> SumOver(S, "netAmountInr"),
     totalQuantity |-> SumOver(S, "billedQuantity")]

GroupBy(S, KeyOf(_)) ==
    { Group({ r \in S : KeyOf(r) = k }, k) : k \in { KeyOf(r) : r \in S } }

RECURSIVE UnionIds(_)
UnionIds(s) == IF s = << >> THEN {} ELSE s[1].ids \cup UnionIds(Tail(s))

\* ------------------------------------------------------------------------
\* User tools: scoped to the authenticated user's billToPartyCode
\* ------------------------------------------------------------------------
getMyInvoiceHistory(args, sess, inv, fault) ==
    LET authResult == getAuthenticatedUser(sess) IN
    IF ~authResult.authenticated THEN { Failure(authResult.error, 0) }
    ELSE
      LET pg == getSafePagination(args.limit, args.offset)
          fromDate == normalizeDate(args.fromDate)
          toDate == normalizeDate(args.toDate)
          rows == { r \in inv : OwnedBy(r, authResult) /\ DateFilters(r, fromDate, toDate) }
      IN  IF fault THEN { Threw(1, 0) }
          ELSE { [R0 EXCEPT !.success = "true", !.owner = authResult.name,
                            !.data = LimitOffset(ord, pg.limit, pg.offset),
                            !.src = SeqIds(LimitOffset(ord, pg.limit, pg.offset)),
                            !.reads = 1, !.limit = Some(pg.limit), !.offset = Some(pg.offset)]
                 : ord \in OrderingsDesc(rows, DateKey) }

getMyInvoiceSummary(args, sess, inv, fault) ==
    LET authResult == getAuthenticatedUser(sess) IN
    IF ~authResult.authenticated THEN { Failure(authResult.error, 0) }
    ELSE
      LET fromDate == normalizeDate(args.fromDate)
          toDate == normalizeDate(args.toDate)
          rows == { r \in inv : OwnedBy(r, authResult) /\ DateFilters(r, fromDate, toDate) }
      IN  IF fault THEN { Threw(1, 0) }
          ELSE { [R0 EXCEPT !.success = "true", !.owner = authResult.billToPartyCode,
                            !.data = << Group(rows, "all") >>,
                            !.src = Ids(rows), !.reads = 1] }

PdfUrlMutNoTrim(billingDocument) == << INVOICE_PDF_BUCKET_URL, "/", billingDocument, ".pdf" >>

PdfUrl(billingDocument) == << INVOICE_PDF_BUCKET_URL, "/", Trim(billingDocument), ".pdf" >>

NotFoundForAccount(billingDocument) ==
    << "No invoice found with billing document ID: ", billingDocument, " for your account." >>

getMyInvoicePdfMutNoOwnerCheck(args, sess, inv, fault) ==
    LET authResult == getAuthenticatedUser(sess)
        billingDocument == args.billingDocument
    IN
    IF ~authResult.authenticated THEN { Failure(authResult.error, 0) }
    ELSE IF billingDocument = "" \/ Trim(billingDocument) = ""
    THEN { Failure(<<MsgRequired>>, 0) }
    ELSE
      LET rows == { r \in inv : r.billingDocument = Trim(billingDocument) }
      IN  IF fault THEN { Threw(1, 0) }
          ELSE IF rows = {} THEN { Failure(NotFoundForAccount(billingDocument), 1) }
          ELSE { [R0 EXCEPT !.success = "true", !.owner = invoiceRecord.billToPartyCode,
                            !.data = << invoiceRecord >>, !.src = {invoiceRecord.id},
                            !.pdfUrl = PdfUrl(billingDocument),
                            !.reads = 1, !.limit = Some(1)]
                 : invoiceRecord \in rows }

getMyInvoicePdf(args, sess, inv, fault) ==
    LET authResult == getAuthenticatedUser(sess)
        billingDocument == args.billingDocument
    IN
    IF ~authResult.authenticated THEN { Failure(authResult.error, 0) }
    ELSE IF billingDocument = "" \/ Trim(billingDocument) = ""
    THEN { Failure(<<MsgRequired>>, 0) }
    ELSE
      LET rows == { r \in inv : r.billingDocument = Trim(billingDocument)
                                /\ OwnedBy(r, authResult) }
      IN  IF fault THEN { Threw(1, 0) }
          ELSE IF rows = {} THEN { Failure(NotFoundForAccount(billingDocument), 1) }
          ELSE { [R0 EXCEPT !.success = "true", !.owner = invoiceRecord.billToPartyCode,
                            !.data = << invoiceRecord >>, !.src = {invoiceRecord.id},
                            !.pdfUrl = PdfUrl(billingDocument),
                            !.reads = 1, !.limit = Some(1)]
                 : invoiceRecord \in rows }

getMyInvoiceDetails(args, sess, inv, fault) ==
    LET authResult == getAuthenticatedUser(sess)
        billingDocument == args.billingDocument
    IN
    IF ~authResult.authenticated THEN { Failure(authResult.error, 0) }
    ELSE IF billingDocument = "" \/ Trim(billingDocument) = ""
    THEN { Failure(<<MsgRequired>>, 0) }
    ELSE
      LET rows == { r \in inv : /\ r.billingDocument = Trim(billingDocument)
                                /\ OwnedBy(r, authResult)
                                /\ (IsSome(args.item) => r.item = Val(args.item)) }
      IN  IF fault THEN { Threw(1, 0) }
          ELSE IF rows = {} THEN { Failure(NotFoundForAccount(billingDocument), 1) }
          ELSE { [R0 EXCEPT !.success = "true", !.owner = authResult.billToPartyCode,
                            !.data = ord, !.src = Ids(rows), !.reads = 1]
                 : ord \in OrderingsAsc(rows, LAMBDA r : r.item) }

\* the `limit > 0 ? Math.min(limit, cap) : dflt` idiom
ClampLimit(limit, cap, dflt) ==
    IF IsSome(limit) /\ Val(limit) # 0 /\ Val(limit) > 0 THEN Min(Val(limit), cap) ELSE dflt

getMyRecentInvoices(args, sess, inv, fault) ==
    LET authResult == getAuthenticatedUser(sess) IN
    IF ~authResult.authenticated THEN { Failure(authResult.error, 0) }
    ELSE
      LET limit == ClampLimit(args.limit, 50, 10)
          rows == { r \in inv : OwnedBy(r, authResult) }
      IN  IF fault THEN { Threw(1, 0) }
          ELSE { [R0 EXCEPT !.success = "true", !.owner = authResult.billToPartyCode,
                            !.data = LimitOffset(ord, limit, 0),
                            !.src = SeqIds(LimitOffset(ord, limit, 0)),
                            !.reads = 1, !.limit = Some(limit)]
                 : ord \in OrderingsDesc(rows, DateKey) }

getMyPurchasesByMaterial(args, sess, inv, fault) ==
    LET authResult == getAuthenticatedUser(sess) IN
    IF ~authResult.authenticated THEN { Failure(authResult.error, 0) }
    ELSE
      LET limit == ClampLimit(args.limit, 100, 20)
          fromDate == normalizeDate(args.fromDate)
          toDate == normalizeDate(args.toDate)
          rows == { r \in inv : OwnedBy(r, authResult) /\ DateFilters(r, fromDate, toDate) }
      IN  IF fault THEN { Threw(1, 0) }
          ELSE { [R0 EXCEPT !.success = "true", !.owner = authResult.billToPartyCode,
                            !.data = LimitOffset(ord, limit, 0),
                            !.src = UnionIds(LimitOffset(ord, limit, 0)),
                            !.reads = 1, !.limit = Some(limit)]
                 : ord \in OrderingsDesc(GroupBy(rows, LAMBDA r : r.material),
                         LAMBDA g : g.totalNetAmount) }

\* startDate.setMonth(startDate.getMonth() - monthsBack)
MonthsBefore(day, n) == day - n * DaysPerMonth

getMyMonthlyPurchaseTrend(args, sess, inv, fault) ==
    LET authResult == getAuthenticatedUser(sess) IN
    IF ~authResult.authenticated THEN { Failure(authResult.error, 0) }
    ELSE
      LET monthsBack == ClampLimit(args.months, 24, 12)
          fromDate == normalizeDate(DDate(MonthsBefore(Today, monthsBack)))
          rows == { r \in inv : OwnedBy(r, authResult) /\ DateFilters(r, fromDate, None) }
      IN  IF fault THEN { Threw(1, 0) }
          ELSE { [R0 EXCEPT !.success = "true", !.owner = authResult.billToPartyCode,
                            !.data = ord, !.src = UnionIds(ord), !.reads = 1]
                 : ord \in OrderingsAsc(GroupBy(rows,
                         LAMBDA r : r.invoiceDate \div DaysPerMonth), LAMBDA g : g.key) }

getMyProfile(args, sess, inv, fault) ==
    LET authResult == getAuthenticatedUser(sess) IN
    IF ~authResult.authenticated THEN { Failure(authResult.error, 0) }
    ELSE
      LET rows == { r \in inv : OwnedBy(r, authResult) }
      IN  IF fault THEN { Threw(1, 0) }
          ELSE { [R0 EXCEPT !.success = "true", !.owner = authResult.billToPartyCode,
                            !.data = << Group(rows, authResult.name) >>,
                            !.src = Ids(rows), !.reads = 1] }

\* ------------------------------------------------------------------------
\* Invoice tools (no session is resolved)
\* ------------------------------------------------------------------------
\* `if (params.x) filters.push(eq(column, params.x))`: an absent or empty
\* string imposes no constraint
EqFilter(value, arg) == (IsSome(arg) /\ Val(arg) # "") => value = Val(arg)

getInvoiceById(args, inv, fault) ==
    LET rows == { r \in inv : IsSome(args.id) /\ r.id = Val(args.id) }
    IN  IF fault THEN { Threw(1, 0) }
        ELSE IF rows = {} THEN { [R0 EXCEPT !.isNull = TRUE, !.reads = 1, !.limit = Some(1)] }
        ELSE { [R0 EXCEPT !.data = << r >>, !.src = {r.id}, !.reads = 1, !.limit = Some(1)]
               : r \in rows }

getInvoiceByBillingDocumentAndItem(args, inv, fault) ==
    LET rows == { r \in inv : /\ r.billingDocument = args.billingDocument
                              /\ IsSome(args.item) /\ r.item = Val(args.item) }
    IN  IF fault THEN { Threw(1, 0) }
        ELSE IF rows = {} THEN { [R0 EXCEPT !.isNull = TRUE, !.reads = 1, !.limit = Some(1)] }
        ELSE { [R0 EXCEPT !.data = << r >>, !.src = {r.id}, !.reads = 1, !.limit = Some(1)]
               : r \in rows }

listCustomerInvoices(args, inv, fault) ==
    LET pg == getSafePagination(args.limit, args.offset)
        fromDate == normalizeDate(args.fromDate)
        toDate == normalizeDate(args.toDate)
        rows == { r \in inv : /\ EqFilter(r.billToPartyCode, args.billToPartyCode)
                              /\ EqFilter(r.billToParty, args.billToParty)
                              /\ DateFilters(r, fromDate, toDate) }
    IN  IF fault THEN { Threw(1, 0) }
        ELSE { [R0 EXCEPT !.data = LimitOffset(ord, pg.limit, pg.offset),
                          !.src = SeqIds(LimitOffset(ord, pg.limit, pg.offset)),
                          !.reads = 1, !.limit = Some(pg.limit), !.offset = Some(pg.offset)]
               : ord \in OrderingsDesc(rows, DateKey) }

listMaterialInvoices(args, inv, fault) ==
    LET pg == getSafePagination(args.limit, args.offset)
        fromDate == normalizeDate(args.fromDate)
        toDate == normalizeDate(args.toDate)
        rows == { r \in inv : /\ EqFilter(r.material, args.material)
                              /\ EqFilter(r.ainocularDesign, args.ainocularDesign)
                              /\ EqFilter(r.ainocularShade, args.ainocularShade)
                              /\ EqFilter(r.regionZone, args.regionZone)
                              /\ DateFilters(r, fromDate, toDate) }
    IN  IF fault THEN { Threw(1, 0) }
        ELSE { [R0 EXCEPT !.data = LimitOffset(ord, pg.limit, pg.offset),
                          !.src = SeqIds(LimitOffset(ord, pg.limit, pg.offset)),
                          !.reads = 1, !.limit = Some(pg.limit), !.offset = Some(pg.offset)]
               : ord \in OrderingsDesc(rows, DateKey) }

getCustomerAmountSummary(args, inv, fault) ==
    LET fromDate == normalizeDate(args.fromDate)
        toDate == normalizeDate(args.toDate)
        rows == { r \in inv : /\ EqFilter(r.billToPartyCode, args.billToPartyCode)
                              /\ EqFilter(r.billToParty, args.billToParty)
                              /\ DateFilters(r, fromDate, toDate) }
    IN  IF fault THEN { Threw(1, 0) }
        ELSE { [R0 EXCEPT !.data = << Group(rows, "all") >>, !.src = Ids(rows), !.reads = 1] }

getInvoiceKpis(args, inv, fault) ==
    LET fromDate == normalizeDate(args.fromDate)
        toDate == normalizeDate(args.toDate)
        rows == { r \in inv : DateFilters(r, fromDate, toDate) }
    IN  IF fault THEN { Threw(1, 0) }
        ELSE { [R0 EXCEPT !.data = << Group(rows, "all") >>, !.src = Ids(rows), !.reads = 1] }

getTopCustomersByRevenue(args, inv, fault) ==
    LET fromDate == normalizeDate(args.fromDate)
        toDate == normalizeDate(args.toDate)
        limit == ClampLimit(args.limit, 100, 20)
        rows == { r \in inv : DateFilters(r, fromDate, toDate) }
    IN  IF fault THEN { Threw(1, 0) }
        ELSE { [R0 EXCEPT !.data = LimitOffset(ord, limit, 0),
                          !.src = UnionIds(LimitOffset(ord, limit, 0)),
                          !.reads = 1, !.limit = Some(limit)]
               : ord \in OrderingsDesc(GroupBy(rows,
                       LAMBDA r : << r.billToPartyCode, r.billToParty >>),
                               LAMBDA g : g.totalNetAmount) }

\* the four per-dimension revenue reports: same query, different GROUP BY
RevenueBy(args, inv, fault, KeyOf(_)) ==
    LET fromDate == normalizeDate(args.fromDate)
        toDate == normalizeDate(args.toDate)
        rows == { r \in inv : DateFilters(r, fromDate, toDate) }
    IN  IF fault THEN { Threw(1, 0) }
        ELSE { [R0 EXCEPT !.data = ord, !.src = UnionIds(ord), !.reads = 1]
               : ord \in OrderingsDesc(GroupBy(rows, KeyOf), LAMBDA g : g.totalNetAmount) }

getRevenueByRegion(args, inv, fault) == RevenueBy(args, inv, fault, LAMBDA r : r.regionZone)
getAgentPerformance(args, inv, fault) == RevenueBy(args, inv, fault,
        LAMBDA r : << r.agentCode, r.agentName, r.regionZone >>)
getFabricPerformanceByEndUse(args, inv, fault) == RevenueBy(args, inv, fault, LAMBDA r : r.endUse)
getPatternPerformance(args, inv, fault) == RevenueBy(args, inv, fault,
        LAMBDA r : << r.ainocularDesign, r.ainocularShade >>)

\* SELECT DISTINCT of one column set: its values, as a set
DistinctOf(S, KeyOf(_)) == { KeyOf(r) : r \in S }

listCustomerDistinctValues(args, inv, fault) ==
    IF fault THEN { Threw(2, 0) }
    ELSE { [R0 EXCEPT !.data = << DistinctOf(inv,
            LAMBDA r : << r.billToPartyCode, r.billToParty >>), DistinctOf(inv,
                    LAMBDA r : r.billToPartyCity) >>,
                      !.src = Ids(inv), !.reads = 2] }

listAdminDistinctValues(args, inv, fault) ==
    IF fault THEN { Threw(4, 0) }
    ELSE { [R0 EXCEPT !.data = << DistinctOf(inv, LAMBDA r : r.regionZone), DistinctOf(inv,
            LAMBDA r : << r.agentCode, r.agentName >>),
                                  DistinctOf(inv, LAMBDA r : r.endUse), DistinctOf(inv,
                                          LAMBDA r : r.ainocularDesign) >>,
                      !.src = Ids(inv), !.reads = 4] }

NotFound(billingDocument) ==
    << "No invoice found with billing document ID: ", billingDocument >>

getInvoicePdfLinkMutNoTrimCheck(args, inv, fault) ==
    LET billingDocument == args.billingDocument IN
    IF billingDocument = ""
    THEN { Failure(<<MsgRequired>>, 0) }
    ELSE
      LET rows == { r \in inv : r.billingDocument = Trim(billingDocument) }
      IN  IF fault THEN { Threw(1, 0) }
          ELSE IF rows = {} THEN { Failure(NotFound(billingDocument), 1) }
          ELSE { [R0 EXCEPT !.success = "true", !.data = << invoiceRecord >>,
                            !.src = {invoiceRecord.id}, !.pdfUrl = PdfUrl(billingDocument),
                            !.reads = 1, !.limit = Some(1)]
                 : invoiceRecord \in rows }

getInvoicePdfLink(args, inv, fault) ==
    LET billingDocument == args.billingDocument IN
    IF billingDocument = "" \/ Trim(billingDocument) = ""
    THEN { Failure(<<MsgRequired>>, 0) }
    ELSE
      LET rows == { r \in inv : r.billingDocument = Trim(billingDocument) }
      IN  IF fault THEN { Threw(1, 0) }
          ELSE IF rows = {} THEN { Failure(NotFound(billingDocument), 1) }
          ELSE { [R0 EXCEPT !.success = "true", !.data = << invoiceRecord >>,
                            !.src = {invoiceRecord.id}, !.pdfUrl = PdfUrl(billingDocument),
                            !.reads = 1, !.limit = Some(1)]
                 : invoiceRecord \in rows }

\* ------------------------------------------------------------------------
\* Sales analysis tools
\* ------------------------------------------------------------------------
\* `params.x || dflt`
OrDefault(o, dflt) == IF IsSome(o) /\ Val(o) # 0 THEN Val(o) ELSE dflt

YearsBefore(day, n) == day - n * DaysPerYear
YearOf(day) == day \div DaysPerYear
QuarterOf(day) == (day % DaysPerYear) \div (3 * DaysPerMonth) + 1

Between(r, lo, hi) == r.invoiceDate # NullDate /\ r.invoiceDate >= lo /\ r.invoiceDate <= hi
Since(r, lo) == r.invoiceDate # NullDate /\ r.invoiceDate >= lo

getQuarterlyRevenue(args, inv, fault) ==
    LET years == OrDefault(args.years, 2)
        cutoffDate == YearsBefore(Today, years)
        rows == { r \in inv : /\ Since(r, cutoffDate)
                              /\ (args.regions # {} => r.regionZone \in args.regions) }
    IN  IF fault THEN { Threw(1, 0) }
        ELSE { [R0 EXCEPT !.data = ord, !.src = UnionIds(ord), !.reads = 1]
               : ord \in OrderingsDesc(GroupBy(rows,
                       LAMBDA r : << YearOf(r.invoiceDate), QuarterOf(r.invoiceDate), r.regionZone >>),
                               LAMBDA g : 4 * g.key[1] + g.key[2]) }

\* Number.prototype.toFixed(2) of a ratio num / den (den > 0), in hundredths:
\* the magnitude is rounded half up
RoundDiv(num, den) == (2 * num + den) \div (2 * den)
Hundredths(num, den) ==
    IF num >= 0 THEN RoundDiv(100 * num, den) ELSE 0 - RoundDiv(100 * (0 - num), den)

\* growth percentage, in hundredths of a percent point
GrowthPctMutZeroBase(currRev, prevRev) ==
    IF prevRev = 0 THEN 0
    ELSE IF prevRev > 0 THEN Hundredths((currRev - prevRev) * 100, prevRev)
    ELSE Hundredths((prevRev - currRev) * 100, 0 - prevRev)

GrowthPct(currRev, prevRev) ==
    IF prevRev = 0 THEN (IF currRev > 0 THEN 100 * 100 ELSE 0)
    ELSE IF prevRev > 0 THEN Hundredths((currRev - prevRev) * 100, prevRev)
    ELSE Hundredths((prevRev - currRev) * 100, 0 - prevRev)

\* currentPeriod.map(curr => ...previousPeriod.find(...)): one entry per group
\* of the current window
GrowthData(currentPeriod, previousPeriod, CurrDim(_), PrevDim(_)) ==
    { LET prev == { p \in previousPeriod : PrevDim(p) = CurrDim(curr) }
          prevRev == IF prev = {} THEN 0 ELSE (CHOOSE p \in prev : TRUE).totalNetAmount
          currRev == curr.totalNetAmount
      IN  [key |-> curr.key, ids |-> curr.ids \cup UNION { p.ids : p \in prev },
           currentRevenue |-> currRev, previousRevenue |-> prevRev,
           growthPercentage |-> GrowthPct(currRev, prevRev),
           absoluteGrowth |-> currRev - prevRev]
      : curr \in currentPeriod }

CurrentWindowMutTwoYears(inv) == { r \in inv : Between(r, YearsBefore(Today, 2), Today) }

CurrentWindow(inv) == { r \in inv : Between(r, YearsBefore(Today, 1), Today) }
PreviousWindow(inv) == { r \in inv : Between(r, YearsBefore(Today, 2), YearsBefore(Today, 1)) }

getRegionGrowth(args, inv, fault) ==
    IF fault THEN { Threw(1, 0) }
    ELSE { [R0 EXCEPT !.data = ord, !.src = UnionIds(ord), !.reads = 2]
           : ord \in OrderingsDesc(GrowthData(GroupBy(CurrentWindow(inv), LAMBDA r : r.regionZone),
                                              GroupBy(PreviousWindow(inv), LAMBDA r : r.regionZone),
                                              LAMBDA g : g.key, LAMBDA g : g.key),
                                                      LAMBDA g : g.growthPercentage) }

getCustomerGrowth(args, inv, fault) ==
    IF fault THEN { Threw(1, 0) }
    ELSE { [R0 EXCEPT !.data = Slice0(ord, OrDefault(args.limit, 20)),
                      !.src = UnionIds(Slice0(ord, OrDefault(args.limit, 20))),
                      !.reads = 2, !.limit = Some(OrDefault(args.limit, 20))]
           : ord \in OrderingsDesc(GrowthData(GroupBy(CurrentWindow(inv),
                   LAMBDA r : << r.billToPartyCode, r.billToParty >>),
                                              GroupBy(PreviousWindow(inv),
                                                      LAMBDA r : r.billToPartyCode),
                                              LAMBDA g : g.key[1], LAMBDA g : g.key),
                                                      LAMBDA g : g.absoluteGrowth) }

getAgentGrowth(args, inv, fault) ==
    IF fault THEN { Threw(1, 0) }
    ELSE { [R0 EXCEPT !.data = ord, !.src = UnionIds(ord), !.reads = 2]
           : ord \in OrderingsDesc(GrowthData(GroupBy(CurrentWindow(inv),
                   LAMBDA r : << r.agentCode, r.agentName >>),
                                              GroupBy(PreviousWindow(inv), LAMBDA r : r.agentCode),
                                              LAMBDA g : g.key[1], LAMBDA g : g.key),
                                                      LAMBDA g : g.absoluteGrowth) }

\* eq(lower(bill_to_party_city), city.toLowerCase())
CityInputs == {"pune", "PUNE", "Agra"}
Lower(c) == CASE c = "PUNE" -> "pune" [] c = "Pune" -> "pune"
              [] c = "Delhi" -> "delhi" [] c = "Agra" -> "agra" [] OTHER -> c

getCityAnalysis(args, inv, fault) ==
    LET inCity == { r \in inv : Lower(r.billToPartyCity) = Lower(args.city) }
        top(groups, Key(_), n) ==
            { [R0 EXCEPT !.data = LimitOffset(ord, n, 0),
                         !.src = UnionIds(LimitOffset(ord, n, 0)),
                         !.reads = 1, !.limit = Some(n)]
              : ord \in OrderingsDesc(groups, Key) }
    IN  IF fault THEN { Threw(1, 0) }
        ELSE CASE args.type = "top_customers" -> top(GroupBy(inCity, LAMBDA r : r.billToParty),
                LAMBDA g : g.totalNetAmount, 10)
               [] args.type = "top_products" -> top(GroupBy(inCity,
                       LAMBDA r : << r.material, r.ainocularDesign >>), LAMBDA g : g.totalQuantity, 5)
               [] args.type = "top_shades" -> top(GroupBy(inCity, LAMBDA r : r.ainocularShade),
                       LAMBDA g : g.totalQuantity, 5)
               [] OTHER -> \* avg_selling_rate: every city, the city filter is not applied
                    { [R0 EXCEPT !.data = ord, !.src = UnionIds(ord), !.reads = 1]
                      : ord \in Perms(GroupBy(inv, LAMBDA r : r.billToPartyCity)) }

getEndUseShare(args, inv, fault) ==
    IF fault THEN { Threw(1, 0) }
    ELSE { [R0 EXCEPT !.data = ord, !.src = UnionIds(ord), !.reads = 2]
           : ord \in OrderingsDesc(GroupBy(inv, LAMBDA r : r.endUse), LAMBDA g : g.totalNetAmount) }

getInactiveCustomersMutNoActiveFilter(args, inv, fault) ==
    LET cutoffDate == MonthsBefore(Today, Val(args.monthsInactive))
        priorDate == YearsBefore(cutoffDate, 1)
        previouslyActive == GroupBy({ r \in inv : Between(r, priorDate, cutoffDate) },
                LAMBDA r : << r.billToPartyCode, r.billToParty >>)
        inactive == { c \in previouslyActive : c.key[1] \notin {NullText, ""} }
    IN  IF fault THEN { Threw(1, 0) }
        ELSE { [R0 EXCEPT !.data = ord, !.src = UnionIds(ord), !.reads = 2]
               : ord \in Perms(inactive) }

getInactiveCustomers(args, inv, fault) ==
    LET cutoffDate == MonthsBefore(Today, Val(args.monthsInactive))
        activeCodes == { r.billToPartyCode : r \in { x \in inv : Since(x, cutoffDate) } }
                         \ {NullText, ""}
        priorDate == YearsBefore(cutoffDate, 1)
        previouslyActive == GroupBy({ r \in inv : Between(r, priorDate, cutoffDate) },
                LAMBDA r : << r.billToPartyCode, r.billToParty >>)
        inactive == { c \in previouslyActive :
                        c.key[1] \notin {NullText, ""} /\ c.key[1] \notin activeCodes }
    IN  IF fault THEN { Threw(1, 0) }
        ELSE { [R0 EXCEPT !.data = ord, !.src = UnionIds(ord), !.reads = 2]
               : ord \in Perms(inactive) }

getTopProducts(args, inv, fault) ==
    LET limit == OrDefault(args.limit, 10) IN
    IF fault \/ limit < 0 THEN { Threw(1, 0) }
    ELSE { [R0 EXCEPT !.data = LimitOffset(ord, limit, 0),
                      !.src = UnionIds(LimitOffset(ord, limit, 0)),
                      !.reads = 1, !.limit = Some(limit)]
           : ord \in OrderingsDesc(GroupBy(inv,
                   LAMBDA r : << r.material, r.ainocularDesign, r.ainocularShade >>),
                           LAMBDA g : g.totalNetAmount) }

\* ------------------------------------------------------------------------
\* Stock tools
\* ------------------------------------------------------------------------
\* `Number(value || 0)` of a nullable numeric column
Num0(value) == IF value = NullNum THEN 0 ELSE value

\* sum() skips the rows whose value is NULL
HasQuantity(S) == { r \in S : r.stockInMeters # NullNum }

RECURSIVE StockValue(_)
StockValue(S) ==
    IF S = {} THEN 0
    ELSE LET r == CHOOSE x \in S : TRUE
         IN  Num0(r.stockInMeters) * r.basicPrice + StockValue(S \ {r})

StockGroup(S, k) ==
    [key |-> k, ids |-> {}, materials |-> { r.material : r \in S }, count |-> Cardinality(S),
     totalStockQuantity |-> SumOver(HasQuantity(S), "stockInMeters"),
     totalStockValue |-> StockValue(S)]

StockGroupBy(S, KeyOf(_)) ==
    { StockGroup({ r \in S : KeyOf(r) = k }, k) : k \in { KeyOf(r) : r \in S } }

\* LIMIT n of the database: a negative n is an error of the query
DbLimit(ords, n, reads, stockReads) ==
    IF n < 0 THEN { Threw(reads, stockReads) }
    ELSE { [R0 EXCEPT !.data = LimitOffset(ord, n, 0), !.reads = reads,
                      !.stockReads = stockReads, !.limit = Some(n)] : ord \in ords }

getStockInfo(args, stk, fault) ==
    LET rows == { r \in stk : /\ EqFilter(r.material, args.sku)
                              /\ (IsSome(args.minQuantity) /\ Val(args.minQuantity) # 0)
                                    => (r.stockInMeters # NullNum
                                        /\ r.stockInMeters >= Val(args.minQuantity)) }
    IN  IF fault THEN { Threw(0, 1) } ELSE DbLimit(Perms(rows), 20, 0, 1)

getTotalStockValue(args, stk, fault) ==
    IF fault THEN { Threw(0, 1) }
    ELSE { [R0 EXCEPT !.data = << StockGroup(stk, "all") >>, !.isNull = (HasQuantity(stk) = {}),
                      !.stockReads = 1] }

getStockSummaryKpis(args, stk, fault) ==
    IF fault THEN { Threw(0, 1) }
    ELSE { [R0 EXCEPT !.data = << StockGroup(stk, "all") >>, !.stockReads = 1] }

GroupByInputs == {"fabric_type", "loom_type", "design", "shade"}
\* the column a groupBy value selects; the columns the rows of the model do
\* not carry are NULL in every row
StockGroups(stk, groupBy) ==
    CASE groupBy = "fabric_type" -> StockGroupBy(stk, LAMBDA r : r.fabricType)
      [] groupBy = "design" -> StockGroupBy(stk, LAMBDA r : r.ainocularDesign)
      [] OTHER -> StockGroupBy(stk, LAMBDA r : NullText)

getStockByCategory(args, stk, fault) ==
    IF fault THEN { Threw(0, 1) }
    ELSE { [R0 EXCEPT !.data = ord, !.stockReads = 1]
           : ord \in OrderingsDesc(StockGroups(stk, Val(args.groupBy)), LAMBDA g : g.totalStockValue) }

getReplenishmentReport(args, stk, fault) ==
    LET daysAhead == OrDefault(args.daysAhead, 30)
        rows == { r \in stk : /\ r.replenishmentDate # NullDate
                              /\ r.replenishmentDate <= Today + daysAhead
                              /\ r.replenishmentDate >= Today }
    IN  IF fault THEN { Threw(0, 1) }
        ELSE { [R0 EXCEPT !.data = ord, !.stockReads = 1] : ord \in OrderingsAsc(rows,
                LAMBDA r : r.replenishmentDate) }

getStockLeadTimeAnalysis(args, stk, fault) ==
    LET rows == { r \in stk : (IsSome(args.minLeadTimeDays) /\ Val(args.minLeadTimeDays) # 0)
                                => r.leadTimeDays >= Val(args.minLeadTimeDays) }
        ords == IF args.sortOrder = Some("asc") THEN OrderingsAsc(rows, LAMBDA r : r.leadTimeDays)
                ELSE OrderingsDesc(rows, LAMBDA r : r.leadTimeDays)
    IN  IF fault THEN { Threw(0, 1) }
        ELSE DbLimit(ords, OrDefault(args.limit, 20), 0, 1)

\* lower(material) like '%' || lower(pattern) || '%'
LikeInputs == {None, Some("m"), Some("M4")}
Like(material, pattern) ==
    CASE pattern = "m" -> TRUE
      [] pattern = "M4" -> material = "M400"
      [] OTHER -> FALSE

searchStock(args, stk, fault) ==
    LET rows == { r \in stk :
                    /\ (IsSome(args.material) /\ Val(args.material) # "")
                          => Like(r.material, Val(args.material))
                    /\ EqFilter(r.fabricType, args.fabricType)
                    /\ EqFilter(r.ainocularDesign, args.design)
                    /\ IsSome(args.minStock) =>
                          (r.stockInMeters # NullNum /\ r.stockInMeters >= Val(args.minStock))
                    /\ IsSome(args.maxStock) =>
                          (r.stockInMeters # NullNum /\ r.stockInMeters <= Val(args.maxStock)) }
        \* ORDER BY stock_in_meters DESC puts the NULL quantities first
        byStock(a, b) == a.stockInMeters = NullNum
                            \/ (b.stockInMeters # NullNum /\ a.stockInMeters >= b.stockInMeters)
    IN  IF fault THEN { Threw(0, 1) }
        ELSE DbLimit({ f \in Perms(rows) : \A i \in 1..(Len(f) - 1) : byStock(f[i], f[i + 1]) },
                     OrDefault(args.limit, 50), 0, 1)

listStockDistinctValues(args, stk, fault) ==
    IF fault THEN { Threw(0, 8) }
    ELSE { [R0 EXCEPT !.data = << DistinctOf(stk, LAMBDA r : r.fabricType), DistinctOf(stk,
            LAMBDA r : r.ainocularDesign) >>,
                      !.stockReads = 8] }

getStockValueByDesign(args, stk, fault) ==
    LET groupBy == IF IsSome(args.groupBy) /\ Val(args.groupBy) # "" THEN Val(args.groupBy)
                   ELSE "design"
    IN  IF fault THEN { Threw(0, 1) }
        ELSE DbLimit(OrderingsDesc(StockGroups(stk, groupBy), LAMBDA g : g.totalStockValue),
                     OrDefault(args.limit, 20), 0, 1)

getStockAgingReport(args, stk, fault) ==
    LET rows == { r \in stk : r.replenishmentDate # NullDate }
    IN  IF fault THEN { Threw(0, 1) }
        ELSE DbLimit(OrderingsAsc(rows, LAMBDA r : r.replenishmentDate), OrDefault(args.limit, 30), 0, 1)

\* ------------------------------------------------------------------------
\* Stock versus sales (two reads joined in process by material)
\* ------------------------------------------------------------------------
\* every order in which `Before` holds between neighbours (a stable sort of
\* rows that arrive in an unspecified order)
OrderingsBy(S, Before(_, _)) ==
    { f \in Perms(S) : \A i \in 1..(Len(f) - 1) : Before(f[i], f[i + 1]) }

AnalysisTypes ==
    {"high_sales_zero_stock", "out_of_stock", "likely_stock_out", "low_stock", "excess_stock"}

\* the test a (stock, sales) pair passes to be pushed to the results of a
\* type; monthlyVelocity = soldLast3Months / 3, compared without dividing
StockSalesMatchMutOnlyNegative(type, currentStock, soldLast3Months) ==
    CASE type = "high_sales_zero_stock" -> currentStock < 0 /\ soldLast3Months > 0
      [] type = "out_of_stock" -> currentStock < 0
      [] type = "likely_stock_out" -> currentStock > 0 /\ 3 * currentStock < soldLast3Months
      [] type = "low_stock" -> currentStock > 0 /\ currentStock < 100
      [] OTHER -> FALSE

StockSalesMatchMutExcessBranch(type, currentStock, soldLast3Months) ==
    CASE type = "high_sales_zero_stock" -> currentStock <= 0 /\ soldLast3Months > 0
      [] type = "out_of_stock" -> currentStock <= 0
      [] type = "likely_stock_out" -> currentStock > 0 /\ 3 * currentStock < soldLast3Months
      [] type = "low_stock" -> currentStock > 0 /\ currentStock < 100
      [] OTHER -> currentStock > soldLast3Months

StockSalesMatch(type, currentStock, soldLast3Months) ==
    CASE type = "high_sales_zero_stock" -> currentStock <= 0 /\ soldLast3Months > 0
      [] type = "out_of_stock" -> currentStock <= 0
      [] type = "likely_stock_out" -> currentStock > 0 /\ 3 * currentStock < soldLast3Months
      [] type = "low_stock" -> currentStock > 0 /\ currentStock < 100
      [] OTHER -> FALSE

\* stockMap.get(sale.material): the stock row of the material, if there is one
stockMapGetMutZeroRow(stk, material) ==
    IF \E x \in stk : x.material = material THEN { x \in stk : x.material = material }
    ELSE { StockRow(material, 0, 0, 0, NullDate, NullText, NullText) }

stockMapGet(stk, material) == { x \in stk : x.material = material }

getStockSalesAnalysis(args, inv, stk, fault) ==
    LET velocityDate == MonthsBefore(Today, 3)
        salesVelocity == GroupBy({ r \in inv : Since(r, velocityDate) }, LAMBDA r : r.material)
        entry(sale, stockItem) ==
            LET currentStock == Num0(stockItem.stockInMeters)
                soldLast3Months == sale.totalQuantity
            IN  [material |-> sale.key, ids |-> sale.ids, stock |-> currentStock,
                 soldLast3Months |-> soldLast3Months,
                 \* monthlyVelocity = sold / 3 ; coverageMonths = stock / monthlyVelocity
                 monthlyVelocity |-> << soldLast3Months, 3 >>,
                 coverageMonths |-> << 3 * currentStock, soldLast3Months >>]
        joined == UNION { { entry(sale, stockItem) : stockItem \in stockMapGet(stk, sale.key) }
                          : sale \in salesVelocity }
        results == { e \in joined : StockSalesMatch(args.type, e.stock, e.soldLast3Months) }
        bySold(a, b) == a.soldLast3Months >= b.soldLast3Months
        byCoverage(a, b) ==
            a.coverageMonths[1] * b.coverageMonths[2] <= b.coverageMonths[1] * a.coverageMonths[2]
        ords == CASE args.type = "high_sales_zero_stock" -> OrderingsBy(results, bySold)
                  [] args.type = "likely_stock_out" -> OrderingsBy(results, byCoverage)
                  [] OTHER -> Perms(results)
    IN  IF fault THEN { Threw(0, 1) }
        ELSE { [R0 EXCEPT !.data = Slice0(ord, 20), !.src = UnionIds(Slice0(ord, 20)),
                          !.reads = 1, !.stockReads = 1, !.limit = Some(20)] : ord \in ords }

getStockTurnRatioMutThrowsOnZero(args, inv, stk, fault) ==
    LET totalSalesQty == SumOver({ r \in inv : Since(r, YearsBefore(Today, 1)) }, "billedQuantity")
        \* sum() of no value is NULL, read as `Number(totalStock || 0)`
        totalStockQty == SumOver(HasQuantity(stk), "stockInMeters")
    IN  IF fault THEN { Threw(1, 0) }
        ELSE IF totalStockQty = 0
        THEN { Threw(1, 1) }
        ELSE { [R0 EXCEPT !.data = << [stockTurnRatio |-> Hundredths(totalSalesQty, totalStockQty),
                                       isText |-> TRUE,
                                       explanation |-> "Calculated as (Total Sales Qty Last 12 Months) / (Current Total Stock Qty)."] >>,
                          !.src = Ids({ r \in inv : Since(r, YearsBefore(Today, 1)) }),
                          !.reads = 1, !.stockReads = 1] }

getStockTurnRatio(args, inv, stk, fault) ==
    LET totalSalesQty == SumOver({ r \in inv : Since(r, YearsBefore(Today, 1)) }, "billedQuantity")
        \* sum() of no value is NULL, read as `Number(totalStock || 0)`
        totalStockQty == SumOver(HasQuantity(stk), "stockInMeters")
    IN  IF fault THEN { Threw(1, 0) }
        ELSE IF totalStockQty = 0
        THEN { [R0 EXCEPT !.data = << [stockTurnRatio |-> 0, isText |-> FALSE,
                                       explanation |-> "No stock available to calculate ratio."] >>,
                          !.reads = 1, !.stockReads = 1] }
        ELSE { [R0 EXCEPT !.data = << [stockTurnRatio |-> Hundredths(totalSalesQty, totalStockQty),
                                       isText |-> TRUE,
                                       explanation |-> "Calculated as (Total Sales Qty Last 12 Months) / (Current Total Stock Qty)."] >>,
                          !.src = Ids({ r \in inv : Since(r, YearsBefore(Today, 1)) }),
                          !.reads = 1, !.stockReads = 1] }

\* Number.prototype.toFixed(1) of num / den (num >= 0, den > 0), in tenths
Tenths(num, den) == RoundDiv(10 * num, den)

getExcessStockReport(args, inv, stk, fault) ==
    LET coverageThreshold == OrDefault(args.coverageMonthsThreshold, 6)
        velocityDate == MonthsBefore(Today, 6)
        sales == { r \in inv : Since(r, velocityDate) }
        item(it) ==
            LET currentStock == Num0(it.stockInMeters)
                soldLast6Months == SumOver({ r \in sales : r.material = it.material },
                                           "billedQuantity")
                noSales == ~(soldLast6Months > 0) /\ currentStock > 0
            IN  [material |-> it.material,
                 ids |-> Ids({ r \in sales : r.material = it.material }),
                 currentStock |-> currentStock,
                 stockValue |-> currentStock * it.basicPrice,
                 soldLast6Months |-> soldLast6Months,
                 \* "No sales" when the coverage is Infinity, else toFixed(1)
                 noSales |-> noSales,
                 coverageMonths |-> IF soldLast6Months > 0
                                    THEN Tenths(6 * currentStock, soldLast6Months) ELSE 0]
        excessItems == { e \in { item(it) : it \in stk } :
                           e.currentStock > 0
                           /\ (e.noSales \/ e.coverageMonths >= 10 * coverageThreshold) }
        byValue(a, b) == a.stockValue >= b.stockValue
        limit == OrDefault(args.limit, 20)
    IN  IF fault THEN { Threw(1, 0) }
        ELSE { [R0 EXCEPT !.data = Slice0(ord, limit), !.src = UnionIds(Slice0(ord, limit)),
                          !.reads = 1, !.stockReads = 1, !.limit = Some(limit)]
               : ord \in OrderingsBy(excessItems, byValue) }

\* ------------------------------------------------------------------------
\* The tool catalog
\* ------------------------------------------------------------------------
InvoiceToolNames ==
    {"getInvoiceById", "getInvoiceByBillingDocumentAndItem", "listCustomerInvoices",
     "listMaterialInvoices", "getCustomerAmountSummary", "getInvoiceKpis",
     "getTopCustomersByRevenue", "getRevenueByRegion", "getAgentPerformance",
     "getFabricPerformanceByEndUse", "getPatternPerformance", "listCustomerDistinctValues",
     "listAdminDistinctValues", "getInvoicePdfLink"}

UserToolNames ==
    {"getMyProfile", "getMyInvoiceHistory", "getMyRecentInvoices", "getMyInvoiceSummary",
     "getMyInvoiceDetails", "getMyInvoicePdf", "getMyPurchasesByMaterial",
     "getMyMonthlyPurchaseTrend"}

SalesAnalysisToolNames ==
    {"getQuarterlyRevenue", "getRegionGrowth", "getCustomerGrowth", "getCityAnalysis",
     "getEndUseShare", "getAgentGrowth", "getInactiveCustomers", "getStockSalesAnalysis",
     "getStockInfo", "getTotalStockValue", "getStockTurnRatio", "getTopProducts"}

StockToolNames ==
    {"getStockSummaryKpis", "getStockByCategory", "getReplenishmentReport",
     "getStockLeadTimeAnalysis", "searchStock", "listStockDistinctValues",
     "getStockValueByDesign", "getStockAgingReport", "getExcessStockReport"}

chatTools == InvoiceToolNames \cup UserToolNames \cup SalesAnalysisToolNames \cup StockToolNames

\* the rows the query of an invoice tool ranges over: the bindings of the
\* invoice tools pass the input alone, and their queries carry no owner
\* predicate, so it is the whole record set whoever calls
InvoiceScopeMutOwnerOnly(tool, sess, inv) ==
    { r \in inv : OwnedBy(r, getAuthenticatedUser(sess)) }

InvoiceScope(tool, sess, inv) == inv

\* execute of the catalog entry `tool`: every result the call may produce
Execute(tool, args, sess, inv, stk, fault) ==
    CASE tool = "getInvoiceById" -> getInvoiceById(args, InvoiceScope(tool, sess, inv), fault)
      [] tool = "getInvoiceByBillingDocumentAndItem" ->
             getInvoiceByBillingDocumentAndItem(args, InvoiceScope(tool, sess, inv), fault)
      [] tool = "listCustomerInvoices" ->
             listCustomerInvoices(args, InvoiceScope(tool, sess, inv), fault)
      [] tool = "listMaterialInvoices" ->
             listMaterialInvoices(args, InvoiceScope(tool, sess, inv), fault)
      [] tool = "getCustomerAmountSummary" ->
             getCustomerAmountSummary(args, InvoiceScope(tool, sess, inv), fault)
      [] tool = "getInvoiceKpis" ->
             getInvoiceKpis(args, InvoiceScope(tool, sess, inv), fault)
      [] tool = "getTopCustomersByRevenue" ->
             getTopCustomersByRevenue(args, InvoiceScope(tool, sess, inv), fault)
      [] tool = "getRevenueByRegion" ->
             getRevenueByRegion(args, InvoiceScope(tool, sess, inv), fault)
      [] tool = "getAgentPerformance" ->
             getAgentPerformance(args, InvoiceScope(tool, sess, inv), fault)
      [] tool = "getFabricPerformanceByEndUse" ->
             getFabricPerformanceByEndUse(args, InvoiceScope(tool, sess, inv), fault)
      [] tool = "getPatternPerformance" ->
             getPatternPerformance(args, InvoiceScope(tool, sess, inv), fault)
      [] tool = "listCustomerDistinctValues" ->
             listCustomerDistinctValues(args, InvoiceScope(tool, sess, inv), fault)
      [] tool = "listAdminDistinctValues" ->
             listAdminDistinctValues(args, InvoiceScope(tool, sess, inv), fault)
      [] tool = "getInvoicePdfLink" ->
             getInvoicePdfLink(args, InvoiceScope(tool, sess, inv), fault)
      [] tool = "getMyProfile" -> getMyProfile(args, sess, inv, fault)
      [] tool = "getMyInvoiceHistory" -> getMyInvoiceHistory(args, sess, inv, fault)
      [] tool = "getMyRecentInvoices" -> getMyRecentInvoices(args, sess, inv, fault)
      [] tool = "getMyInvoiceSummary" -> getMyInvoiceSummary(args, sess, inv, fault)
      [] tool = "getMyInvoiceDetails" -> getMyInvoiceDetails(args, sess, inv, fault)
      [] tool = "getMyInvoicePdf" -> getMyInvoicePdf(args, sess, inv, fault)
      [] tool = "getMyPurchasesByMaterial" -> getMyPurchasesByMaterial(args, sess, inv, fault)
      [] tool = "getMyMonthlyPurchaseTrend" -> getMyMonthlyPurchaseTrend(args, sess, inv, fault)
      [] tool = "getQuarterlyRevenue" -> getQuarterlyRevenue(args, inv, fault)
      [] tool = "getRegionGrowth" -> getRegionGrowth(args, inv, fault)
      [] tool = "getCustomerGrowth" -> getCustomerGrowth(args, inv, fault)
      [] tool = "getCityAnalysis" -> getCityAnalysis(args, inv, fault)
      [] tool = "getEndUseShare" -> getEndUseShare(args, inv, fault)
      [] tool = "getAgentGrowth" -> getAgentGrowth(args, inv, fault)
      [] tool = "getInactiveCustomers" -> getInactiveCustomers(args, inv, fault)
      [] tool = "getStockSalesAnalysis" -> getStockSalesAnalysis(args, inv, stk, fault)
      [] tool = "getStockInfo" -> getStockInfo(args, stk, fault)
      [] tool = "getTotalStockValue" -> getTotalStockValue(args, stk, fault)
      [] tool = "getStockTurnRatio" -> getStockTurnRatio(args, inv, stk, fault)
      [] tool = "getTopProducts" -> getTopProducts(args, inv, fault)
      [] tool = "getStockSummaryKpis" -> getStockSummaryKpis(args, stk, fault)
      [] tool = "getStockByCategory" -> getStockByCategory(args, stk, fault)
      [] tool = "getReplenishmentReport" -> getReplenishmentReport(args, stk, fault)
      [] tool = "getStockLeadTimeAnalysis" -> getStockLeadTimeAnalysis(args, stk, fault)
      [] tool = "searchStock" -> searchStock(args, stk, fault)
      [] tool = "listStockDistinctValues" -> listStockDistinctValues(args, stk, fault)
      [] tool = "getStockValueByDesign" -> getStockValueByDesign(args, stk, fault)
      [] tool = "getStockAgingReport" -> getStockAgingReport(args, stk, fault)
      [] OTHER -> getExcessStockReport(args, inv, stk, fault)

\* ------------------------------------------------------------------------
\* Bounded inputs of the catalog
\* ------------------------------------------------------------------------
ArgsOf(tool) ==
    LET DateArgs == { [A0 EXCEPT !.fromDate = f, !.toDate = t] : f \in DateInputs, t \in DateInputs }
        PageArgs == { [A0 EXCEPT !.limit = l, !.offset = o] : l \in LimitInputs, o \in OffsetInputs }
        LimitArgs == { [A0 EXCEPT !.limit = l] : l \in LimitInputs }
        RangePageArgs ==
            { [A0 EXCEPT !.fromDate = DDate(Today - DaysPerYear), !.toDate = DDateTime(Today - 11),
                         !.limit = l, !.offset = o] : l \in {Some(1), Some(2)}, o \in {None, Some(1)} }
        DocArgs == { [A0 EXCEPT !.billingDocument = d] : d \in DocInputs }
        DocItemArgs == { [A0 EXCEPT !.billingDocument = d, !.item = i] : d \in DocInputs, i \in ItemInputs }
    IN
        CASE tool = "getMyInvoiceHistory" -> DateArgs \cup PageArgs \cup RangePageArgs
          [] tool = "listCustomerInvoices" ->
                 LET base == DateArgs \cup PageArgs \cup RangePageArgs
                 IN  base \cup { [a EXCEPT !.billToPartyCode = Some("ACME")] : a \in PageArgs }
                          \cup { [A0 EXCEPT !.billToParty = Some("Bolt Co")],
                                 [A0 EXCEPT !.billToPartyCode = Some("")] }
          [] tool = "listMaterialInvoices" ->
                 LET base == DateArgs \cup PageArgs \cup RangePageArgs
                 IN  base \cup { [a EXCEPT !.material = Some("M100")] : a \in PageArgs }
                          \cup { [A0 EXCEPT !.regionZone = Some("North")],
                                 [A0 EXCEPT !.ainocularDesign = Some("DSN-A")],
                                 [A0 EXCEPT !.ainocularShade = Some("SH-1")] }
          [] tool \in {"getMyInvoiceSummary", "getInvoiceKpis", "getRevenueByRegion",
                       "getAgentPerformance", "getFabricPerformanceByEndUse",
                       "getPatternPerformance"} -> DateArgs
          [] tool = "getCustomerAmountSummary" ->
                 DateArgs \cup { [A0 EXCEPT !.billToPartyCode = Some("ACME")],
                                 [A0 EXCEPT !.billToParty = Some("Bolt Co")] }
          [] tool \in {"getMyPurchasesByMaterial", "getTopCustomersByRevenue"} ->
                 DateArgs \cup LimitArgs \cup RangePageArgs
          [] tool \in {"getMyRecentInvoices", "getCustomerGrowth", "getTopProducts",
                       "getStockAgingReport"} -> LimitArgs
          [] tool = "getMyInvoicePdf" -> DocArgs
          [] tool = "getInvoicePdfLink" -> DocArgs
          [] tool = "getMyInvoiceDetails" -> DocItemArgs
          [] tool = "getInvoiceByBillingDocumentAndItem" ->
                 { a \in DocItemArgs : IsSome(a.item) /\ a.billingDocument # "" }
          [] tool = "getMyMonthlyPurchaseTrend" -> { [A0 EXCEPT !.months = m] : m \in MonthInputs }
          [] tool = "getInvoiceById" -> { [A0 EXCEPT !.id = Some(i)] : i \in {1, 3, 9} }
          [] tool = "getQuarterlyRevenue" ->
                 { [A0 EXCEPT !.years = y, !.regions = g]
                   : y \in {None, Some(0), Some(1)}, g \in {{}, {"North"}} }
          [] tool = "getCityAnalysis" ->
                 { [A0 EXCEPT !.city = c, !.type = t] : c \in CityInputs,
                   t \in {"top_customers", "top_products", "avg_selling_rate", "top_shades"} }
          [] tool = "getInactiveCustomers" ->
                 { [A0 EXCEPT !.monthsInactive = Some(m)] : m \in {0, 3, 12} }
          [] tool = "getStockSalesAnalysis" -> { [A0 EXCEPT !.type = t] : t \in AnalysisTypes }
          [] tool = "getStockInfo" ->
                 { [A0 EXCEPT !.sku = k, !.minQuantity = q]
                   : k \in {None, Some("M200")}, q \in {None, Some(0), Some(10)} }
          [] tool = "getStockByCategory" ->
                 { [A0 EXCEPT !.groupBy = Some(g)] : g \in {"fabric_type", "loom_type"} }
          [] tool = "getReplenishmentReport" ->
                 { [A0 EXCEPT !.daysAhead = d] : d \in {None, Some(0), Some(6)} }
          [] tool = "getStockLeadTimeAnalysis" ->
                 { [a EXCEPT !.sortOrder = o] : a \in LimitArgs, o \in {None, Some("asc")} }
                 \cup { [A0 EXCEPT !.minLeadTimeDays = m] : m \in {Some(0), Some(5)} }
          [] tool = "searchStock" ->
                 LimitArgs \cup { [A0 EXCEPT !.material = m] : m \in LikeInputs }
                           \cup { [A0 EXCEPT !.minStock = lo, !.maxStock = hi]
                                  : lo \in {None, Some(0), Some(10)}, hi \in {None, Some(10)} }
                           \cup { [A0 EXCEPT !.design = Some("DSN-A")],
                                  [A0 EXCEPT !.fabricType = Some("Linen")] }
          [] tool = "getStockValueByDesign" ->
                 { [a EXCEPT !.groupBy = g] : a \in LimitArgs, g \in {None, Some("shade")} }
          [] tool = "getExcessStockReport" ->
                 LimitArgs \cup { [A0 EXCEPT !.coverageMonthsThreshold = c]
                                  : c \in {Some(0), Some(1), Some(12)} }
          [] OTHER -> { A0 }

\* the arguments a model step of a turn passes: one representative per tool
TurnArgsOf(tool) ==
    CASE tool \in {"getMyInvoicePdf", "getMyInvoiceDetails", "getInvoicePdfLink"} ->
             { [A0 EXCEPT !.billingDocument = d] : d \in {"D1", "D2"} }
      [] tool = "getInvoiceByBillingDocumentAndItem" ->
             { [A0 EXCEPT !.billingDocument = "D1", !.item = Some(10)] }
      [] tool = "getInvoiceById" -> { [A0 EXCEPT !.id = Some(1)] }
      [] tool = "getCityAnalysis" -> { [A0 EXCEPT !.city = "pune", !.type = "top_customers"] }
      [] tool = "getInactiveCustomers" -> { [A0 EXCEPT !.monthsInactive = Some(3)] }
      [] tool = "getStockSalesAnalysis" -> { [A0 EXCEPT !.type = "out_of_stock"] }
      [] tool = "getStockByCategory" -> { [A0 EXCEPT !.groupBy = Some("fabric_type")] }
      [] OTHER -> { A0 }

\* ------------------------------------------------------------------------
\* State
\* ------------------------------------------------------------------------
\* invoice, stock   the two record sets
\* session          what auth.api.getSession resolves for the current request
\* call             the most recent tool invocation with its result, or NoCall
\* phase            "idle" | "received" | "model" | "tools" | "finished" | "error"
\* request          the body of the POST being handled
\* steps            model steps executed in the current turn
\* requested        tool invocations requested by the latest model step
\* pending          tool-call identifiers of the step that have not returned
\* streamed         steps whose output has been written to the response stream
\* response         status, body and finish reason of the HTTP response
\* importRun        the run of the stock import script: its sheet, the index of
\*                  the next batch and "idle" | "running" | "completed" | "failed"
\* chat             the state of the Chat page: the useChat fields messages
\*                  (their number), status and error, and the component's
\*                  consecutiveErrors, showResetNotice and lastUserMessage
\* results          the tool results of the current step, in the order the
\*                  invocations completed, each under its tool-call identifier
VARIABLES invoice, stock, session, call, phase, request, steps, requested, pending,
          streamed, response, importRun, chat, results

vars == << invoice, stock, session, call, phase, request, steps, requested, pending,
           streamed, response, importRun, chat, results >>

NoCall ==
    [tool |-> "", args |-> A0, sess |-> SessNone, fault |-> FALSE, res |-> R0,
     output |-> [type |-> "", value |-> ""]]
NoResponse == [status |-> 0, body |-> "", finishReason |-> ""]
NoStep == 0 - 1
NoImport == [status |-> "idle", sheet |-> << >>, i |-> 0]
\* the page as mounted: useState(0), useState(false), useState(null) and an
\* empty useChat; failures counts the turns that failed in a row since the
\* last finished turn or manual reset
NoChat ==
    [messages |-> 0, status |-> "ready", error |-> FALSE, consecutiveErrors |-> 0,
     showResetNotice |-> FALSE, lastUserMessage |-> None, failures |-> 0]

InvoiceStores == { S \in SUBSET InvoiceUniverse : Cardinality(S) <= MaxInvoiceRows }
StockStores == { S \in SUBSET StockUniverse : Cardinality(S) <= MaxStockRows }

\* the record sets a tool's queries write to: every query of the catalog is a
\* db.select
WritesOfMutProfileClears(tool) == IF tool = "getMyProfile" THEN {"invoice"} ELSE {}

WritesOf(tool) == {}

\* the message of the error a failed query rejects with: the driver's text
\* (statement, parameters, host), whatever the tool
QueryErrorMessage == "Failed query: <statement> params: <parameters>"

\* what the step loop hands to the next model call as the result of the
\* invocation: the returned value, or the message of the error execute
\* rejected with; no tool and no option of the route rewrites it
ToolModelOutput(res) ==
    IF res.outcome = "threw" THEN [type |-> "error-text", value |-> QueryErrorMessage]
    ELSE [type |-> "json", value |-> "result"]

\* the invocation record of execute(args) run under session `sess`; only the
\* user tools resolve the session
CallOf(tool, args, sess, fault, res) ==
    [tool |-> tool, args |-> args,
     sess |-> IF tool \in UserToolNames THEN sess ELSE SessNone,
     fault |-> fault, res |-> res, output |-> ToolModelOutput(res)]

\* ------------------------------------------------------------------------
\* The catalog, one invocation at a time
\* ------------------------------------------------------------------------
CatalogInit ==
    /\ \/ invoice \in InvoiceStores /\ stock = StockUniverse
       \/ invoice = InvoiceUniverse /\ stock \in StockStores
    /\ session \in Sessions
    /\ call = NoCall
    /\ phase = "idle"
    /\ request = ""
    /\ steps = 0
    /\ requested = NoStep
    /\ pending = {}
    /\ streamed = {}
    /\ response = NoResponse
    /\ importRun = NoImport
    /\ chat = NoChat
    /\ results = << >>

Invoke(tool, args, fault) ==
    /\ call = NoCall
    /\ \E res \in Execute(tool, args, session, invoice, stock, fault) :
          call' = CallOf(tool, args, session, fault, res)
    /\ invoice' = IF "invoice" \in WritesOf(tool) THEN {} ELSE invoice
    /\ stock' = IF "stock" \in WritesOf(tool) THEN {} ELSE stock
    /\ UNCHANGED << session, phase, request, steps, requested, pending, streamed, response,
                    importRun, chat, results >>

Return ==
    /\ call # NoCall
    /\ phase = "idle"
    /\ call' = NoCall
    /\ UNCHANGED << invoice, stock, session, phase, request, steps, requested, pending,
                    streamed, response, importRun, chat, results >>

\* the calls made while the storage is failing: the representative arguments
\* of each tool, and the blank billing documents of the tools that require one
FaultArgsOf(tool) ==
    TurnArgsOf(tool) \cup
        (IF tool \in {"getInvoicePdfLink", "getMyInvoicePdf", "getMyInvoiceDetails"}
         THEN { a \in ArgsOf(tool) : Trim(a.billingDocument) = "" } ELSE {})

CatalogNext ==
    \/ \E tool \in chatTools : \E args \in ArgsOf(tool) : Invoke(tool, args, FALSE)
    \/ \E tool \in chatTools : \E args \in FaultArgsOf(tool) : Invoke(tool, args, TRUE)
    \/ Return

CatalogSpec == CatalogInit /\ [][CatalogNext]_vars

\* the unscoped invoice lookups and the sales reports, one invocation at a
\* time, on every store and under every session
ReportTools ==
    {"getInvoiceById", "getInvoiceByBillingDocumentAndItem", "listCustomerInvoices",
     "getCustomerAmountSummary", "getInvoicePdfLink", "getRegionGrowth", "getCustomerGrowth",
     "getAgentGrowth", "getInactiveCustomers", "getStockSalesAnalysis"}

ReportInit ==
    /\ invoice \in InvoiceStores
    /\ stock = StockUniverse
    /\ session \in Sessions
    /\ call = NoCall
    /\ phase = "idle"
    /\ request = ""
    /\ steps = 0
    /\ requested = NoStep
    /\ pending = {}
    /\ streamed = {}
    /\ response = NoResponse
    /\ importRun = NoImport
    /\ chat = NoChat
    /\ results = << >>

ReportNext ==
    \/ \E tool \in ReportTools : \E args \in ArgsOf(tool) : Invoke(tool, args, FALSE)
    \/ \E tool \in ReportTools : \E args \in FaultArgsOf(tool) : Invoke(tool, args, TRUE)
    \/ Return

ReportSpec == ReportInit /\ [][ReportNext]_vars

\* ------------------------------------------------------------------------
\* The chat route: one turn per POST
\* ------------------------------------------------------------------------
\* the tools the model of a turn asks for: user tools, an unscoped listing,
\* a sales analysis, a stock search and a stock-versus-sales report
TurnTools ==
    {"getMyInvoiceHistory", "getMyInvoicePdf", "listCustomerInvoices", "getCustomerGrowth",
     "searchStock", "getStockTurnRatio"}

Requests ==
    {"invalid_json", "no_messages", "not_a_list", "empty_messages", "bad_entries", "valid"}

\* stopWhen: stepCountIs(CONFIG.maxSteps)
StopConditionMetMutOneMore(stepCount) == stepCount >= maxSteps + 1

StopConditionMet(stepCount) == stepCount >= maxSteps

\* the step loop of streamText goes on while the step requested tool calls,
\* all of them have produced an output, and no stop condition is met
ShouldContinueMutIgnoreRequests(toolCalls, stepCount) == ~StopConditionMet(stepCount)

ShouldContinue(toolCalls, stepCount) == toolCalls > 0 /\ ~StopConditionMet(stepCount)

\* the step is over when each of its tool calls has produced a result
StepDoneMutFirstResult(toolCalls, outstanding) ==
    toolCalls = 0 \/ Cardinality(outstanding) < toolCalls

StepDone(toolCalls, outstanding) == outstanding = {}

\* the tool-result part of the step: the call's identifier and whether the
\* tool reported success
ToolResult(id, tool, res) == [toolCallId |-> id, success |-> res.success]

\* the session a tool function works with: what getSession resolves from the
\* request at the time of this call, whatever an earlier call resolved
ResolvedSessionMutCached(ambient, earlier) ==
    IF earlier.sess.kind = "user" THEN earlier.sess ELSE ambient

ResolvedSession(ambient, earlier) == ambient

\* the invoice lines loaded when the service starts
SeedInvoices == { r \in InvoiceUniverse : r.id <= MaxInvoiceRows }

Init ==
    /\ invoice = SeedInvoices
    /\ stock = StockUniverse
    /\ session = SessNone
    /\ call = NoCall
    /\ phase = "idle"
    /\ request = ""
    /\ steps = 0
    /\ requested = NoStep
    /\ pending = {}
    /\ streamed = {}
    /\ response = NoResponse
    /\ importRun = NoImport
    /\ chat = NoChat
    /\ results = << >>

\* a client posts to the route
POST(req) ==
    /\ phase \in {"idle", "finished", "error"}
    /\ phase' = "received"
    /\ request' = req
    /\ steps' = 0
    /\ requested' = NoStep
    /\ pending' = {}
    /\ streamed' = {}
    /\ response' = NoResponse
    /\ call' = NoCall
    /\ results' = << >>
    /\ UNCHANGED << invoice, stock, session, importRun, chat >>

\* req.json(), chatRequestSchema.safeParse, convertToModelMessages, streamText
Validate ==
    /\ phase = "received"
    /\ CASE request = "invalid_json" ->
              /\ phase' = "error"
              /\ response' = [status |-> 400, body |-> "Invalid JSON in request body",
                              finishReason |-> ""]
         [] request \in {"no_messages", "not_a_list", "empty_messages"} ->
              /\ phase' = "error"
              /\ response' = [status |-> 400, body |-> "Invalid request", finishReason |-> ""]
         [] request = "bad_entries" ->
              /\ phase' = "error"
              /\ response' = [status |-> 500, body |-> "Internal server error",
                              finishReason |-> ""]
         [] OTHER ->
              /\ phase' = "model"
              /\ response' = [status |-> 200, body |-> "stream", finishReason |-> ""]
    /\ UNCHANGED << invoice, stock, session, call, request, steps, requested, pending, streamed,
                    importRun, chat, results >>

\* the model call of a step returns: text and k tool requests
ModelStep(k) ==
    /\ phase = "model"
    /\ steps <= maxSteps
    /\ steps' = steps + 1
    /\ requested' = k
    /\ pending' = 1..k
    /\ streamed' = streamed \cup {steps + 1}
    /\ phase' = "tools"
    /\ results' = << >>
    /\ UNCHANGED << invoice, stock, session, call, request, response, importRun, chat >>

\* the model call of a step fails: the stream carries an error part
ModelError ==
    /\ phase = "model"
    /\ phase' = "error"
    /\ response' = [response EXCEPT !.finishReason = "error"]
    /\ UNCHANGED << invoice, stock, session, call, request, steps, requested, pending, streamed,
                    importRun, chat, results >>

\* one requested invocation runs to its result (or to a tool error)
ExecTool(id, tool, args, fault) ==
    /\ phase = "tools"
    /\ id \in pending
    /\ \E res \in Execute(tool, args, ResolvedSession(session, call), invoice, stock, fault) :
          /\ call' = CallOf(tool, args, ResolvedSession(session, call), fault, res)
          /\ results' = Append(results, ToolResult(id, tool, res))
    /\ pending' = pending \ {id}
    /\ invoice' = IF "invoice" \in WritesOf(tool) THEN {} ELSE invoice
    /\ stock' = IF "stock" \in WritesOf(tool) THEN {} ELSE stock
    /\ UNCHANGED << session, phase, request, steps, requested, streamed, response, importRun,
                    chat >>

\* every invocation of the step has an output: continue or finish
StepFinish ==
    /\ phase = "tools"
    /\ StepDone(requested, pending)
    /\ IF ShouldContinue(requested, steps)
       THEN phase' = "model" /\ UNCHANGED response
       ELSE /\ phase' = "finished"
            /\ response' = [response EXCEPT
                              !.finishReason = IF requested > 0 THEN "tool-calls" ELSE "stop"]
    /\ UNCHANGED << invoice, stock, session, call, request, steps, requested, pending, streamed,
                    importRun, chat, results >>

\* the caller signs in, signs out, or the session store starts failing
SetSession(s) ==
    /\ s # session
    /\ session' = s
    /\ UNCHANGED << invoice, stock, call, phase, request, steps, requested, pending,
                    streamed, response, importRun, chat, results >>

Next ==
    \/ \E req \in Requests : POST(req)
    \/ Validate
    \/ \E k \in 0..MaxToolCalls : ModelStep(k)
    \/ ModelError
    \/ \E id \in 1..MaxToolCalls, tool \in TurnTools, fault \in BOOLEAN :
          \E args \in TurnArgsOf(tool) : ExecTool(id, tool, args, fault)
    \/ StepFinish
    \/ \E s \in Sessions : SetSession(s)

Spec == Init /\ [][Next]_vars

\* every model call and every tool call returns or fails, and the route
\* handler runs to its response
FairSpec ==
    /\ Init /\ [][Next]_vars
    /\ WF_vars(Validate)
    /\ WF_vars((\E k \in 0..MaxToolCalls : ModelStep(k)) \/ ModelError)
    /\ WF_vars(\E id \in 1..MaxToolCalls, tool \in TurnTools, fault \in BOOLEAN :
                  \E args \in TurnArgsOf(tool) : ExecTool(id, tool, args, fault))
    /\ WF_vars(StepFinish)

\* ------------------------------------------------------------------------
\* The stock import script: one run per sheet
\* ------------------------------------------------------------------------
batchSize == 500

\* a cell of the sheet is None when empty (defval: null), else its value
SheetRow(material, quantity) == [material |-> material, stock_in_meters |-> quantity]

SheetRows ==
    { SheetRow(Some("M100"), Some(500)), SheetRow(Some("M100"), Some(300)),
      SheetRow(Some(" M100 "), Some(300)), SheetRow(Some("M500"), None),
      SheetRow(Some("  "), Some(500)), SheetRow(None, Some(300)) }

Sheets == UNION { [1..n -> SheetRows] : n \in 1..MaxSheetRows }

\* null for null, undefined and blank text, else the trimmed text
toString(value) ==
    IF value = None THEN None
    ELSE IF Trim(Val(value)) = "" THEN None ELSE Some(Trim(Val(value)))

\* null for null, undefined and "", else the number
toNumeric(value) == IF value = None THEN NullNum ELSE Val(value)

\* batch.map(...).filter(v => v !== null): the rows without a material are
\* dropped; the columns the model does not vary are empty in the sheet
RECURSIVE ValuesOf(_)
ValuesOf(batch) ==
    IF batch = << >> THEN << >>
    ELSE LET row == Head(batch)
             material == toString(row.material)
         IN  (IF material = None THEN << >>
              ELSE << StockRow(Val(material), toNumeric(row.stock_in_meters), NullNum, NullNum,
                               NullDate, NullText, NullText) >>)
             \o ValuesOf(Tail(batch))

\* INSERT INTO stock VALUES ...: the statement fails as a whole when a value
\* repeats the primary key of a stored row or of another value
ViolatesPrimaryKey(stk, values) ==
    \/ \E k \in 1..Len(values) : \E x \in stk : x.material = values[k].material
    \/ \E k, l \in 1..Len(values) : k # l /\ values[k].material = values[l].material

IngestInit ==
    /\ invoice = SeedInvoices
    /\ stock = {}
    /\ session = SessNone
    /\ call = NoCall
    /\ phase = "idle"
    /\ request = ""
    /\ steps = 0
    /\ requested = NoStep
    /\ pending = {}
    /\ streamed = {}
    /\ response = NoResponse
    /\ importRun = NoImport
    /\ chat = NoChat
    /\ results = << >>

\* main() starts on the rows read from the workbook
StartImport(sheet) ==
    /\ importRun.status # "running"
    /\ importRun' = [status |-> "running", sheet |-> sheet, i |-> 0]
    /\ UNCHANGED << invoice, stock, session, call, phase, request, steps, requested, pending,
                    streamed, response, chat, results >>

\* one iteration of the batch loop: map, filter, insert
InsertBatch ==
    /\ importRun.status = "running"
    /\ importRun.i < Len(importRun.sheet)
    /\ LET batch == SubSeq(importRun.sheet, importRun.i + 1,
                           Min(Len(importRun.sheet), importRun.i + batchSize))
           values == ValuesOf(batch)
       IN  IF values = << >>
           THEN /\ importRun' = [importRun EXCEPT !.i = @ + batchSize]
                /\ stock' = stock
           ELSE IF ViolatesPrimaryKey(stock, values)
           THEN \* the insert rejects; main().catch logs and exits with code 1
                /\ importRun' = [importRun EXCEPT !.status = "failed"]
                /\ stock' = stock
           ELSE /\ importRun' = [importRun EXCEPT !.i = @ + batchSize]
                /\ stock' = stock \cup { values[k] : k \in 1..Len(values) }
    /\ UNCHANGED << invoice, session, call, phase, request, steps, requested, pending,
                    streamed, response, chat, results >>

\* the loop is over: "Import completed successfully"
CompleteImport ==
    /\ importRun.status = "running"
    /\ importRun.i >= Len(importRun.sheet)
    /\ importRun' = [importRun EXCEPT !.status = "completed"]
    /\ UNCHANGED << invoice, stock, session, call, phase, request, steps, requested, pending,
                    streamed, response, chat, results >>

IngestNext ==
    \/ \E sheet \in Sheets : StartImport(sheet)
    \/ InsertBatch
    \/ CompleteImport

IngestSpec == IngestInit /\ [][IngestNext]_vars

\* ------------------------------------------------------------------------
\* The chat page: useChat, its callbacks and the component's handlers
\* ------------------------------------------------------------------------
ChatInputs == {"  ", "D1", " D1 ", "D2"}

\* const isLoading = status === "streaming" || status === "submitted"
isLoading == chat.status \in {"streaming", "submitted"}

\* const hasError = error && status !== "streaming": the error banner is shown
hasError == chat.error /\ chat.status # "streaming"

\* the banner's Reset Chat button: showReset={consecutiveErrors >= 1}
showReset == chat.consecutiveErrors >= 1

\* if (newCount > ERROR_CONFIG.maxConsecutiveErrors)
ExceedsThresholdMutAtThreshold(newCount) == newCount >= maxConsecutiveErrors

ExceedsThreshold(newCount) == newCount > maxConsecutiveErrors

ChatInit ==
    /\ invoice = SeedInvoices
    /\ stock = StockUniverse
    /\ session = SessNone
    /\ call = NoCall
    /\ phase = "idle"
    /\ request = ""
    /\ steps = 0
    /\ requested = NoStep
    /\ pending = {}
    /\ streamed = {}
    /\ response = NoResponse
    /\ importRun = NoImport
    /\ chat = NoChat
    /\ results = << >>

\* sendMessage of useChat: the user message is appended, the error is cleared
\* and the request is under way
sendMessage(c) ==
    [c EXCEPT !.messages = @ + 1, !.status = "submitted", !.error = FALSE]

\* the form's onSubmit; the input and the button are disabled while loading
handleSubmit(input) ==
    /\ ~isLoading
    /\ Trim(input) # ""
    /\ chat.messages + 2 <= MaxMessages
    /\ chat' = sendMessage([chat EXCEPT !.showResetNotice = FALSE,
                                        !.lastUserMessage = Some(Trim(input))])
    /\ UNCHANGED << invoice, stock, session, call, phase, request, steps, requested, pending,
                    streamed, response, importRun, results >>

\* the first chunk of the response arrives: the assistant message is appended
StreamStart ==
    /\ chat.status = "submitted"
    /\ chat' = [chat EXCEPT !.status = "streaming", !.messages = @ + 1]
    /\ UNCHANGED << invoice, stock, session, call, phase, request, steps, requested, pending,
                    streamed, response, importRun, results >>

\* the turn fails: useChat calls onError and sets status "error" with the error
onError ==
    /\ isLoading
    /\ chat.failures < MaxFailures
    /\ LET newCount == chat.consecutiveErrors + 1
       IN  chat' = IF ExceedsThreshold(newCount)
                   THEN [chat EXCEPT !.messages = 0, !.showResetNotice = TRUE,
                                     !.consecutiveErrors = 0,
                                     !.status = "error", !.error = TRUE,
                                     !.failures = @ + 1]
                   ELSE [chat EXCEPT !.consecutiveErrors = newCount,
                                     !.status = "error", !.error = TRUE,
                                     !.failures = @ + 1]
    /\ UNCHANGED << invoice, stock, session, call, phase, request, steps, requested, pending,
                    streamed, response, importRun, results >>

\* the turn finishes: useChat calls onFinish and sets status "ready"
onFinish ==
    /\ chat.status = "streaming"
    /\ chat' = [chat EXCEPT !.consecutiveErrors = 0, !.showResetNotice = FALSE,
                            !.lastUserMessage = None, !.status = "ready",
                            !.failures = 0]
    /\ UNCHANGED << invoice, stock, session, call, phase, request, steps, requested, pending,
                    streamed, response, importRun, results >>

\* the banner's Retry button
handleRetry ==
    /\ hasError
    /\ chat.lastUserMessage # None
    /\ chat.messages + 2 <= MaxMessages
    /\ chat' = sendMessage(chat)
    /\ UNCHANGED << invoice, stock, session, call, phase, request, steps, requested, pending,
                    streamed, response, importRun, results >>

\* the banner's Reset Chat button, rendered only when showReset
handleReset ==
    /\ hasError
    /\ showReset
    /\ chat' = [chat EXCEPT !.messages = 0, !.consecutiveErrors = 0,
                            !.showResetNotice = FALSE, !.lastUserMessage = None,
                            !.failures = 0]
    /\ UNCHANGED << invoice, stock, session, call, phase, request, steps, requested, pending,
                    streamed, response, importRun, results >>

ChatNext ==
    \/ \E input \in ChatInputs : handleSubmit(input)
    \/ StreamStart
    \/ onError
    \/ onFinish
    \/ handleRetry
    \/ handleReset

ChatSpec == ChatInit /\ [][ChatNext]_vars

\* ------------------------------------------------------------------------
\* Properties
\* ------------------------------------------------------------------------

\* C1: a user-scoped tool called while the session resolves to no session, to
\* a session without a user, or fails to resolve, returns success = false with
\* an error message and a null payload (no data, no pdfUrl), and issues no
\* read of the invoice record set, whatever its arguments.
C1_UnauthenticatedFailsClosed ==
    (call.tool \in UserToolNames /\ call.sess.kind \in {"none", "nouser", "throws"}) =>
        /\ call.res.outcome = "returned"
        /\ call.res.success = "false"
        /\ call.res.error # << >>
        /\ call.res.isNull
        /\ call.res.data = << >>
        /\ call.res.pdfUrl = << >>
        /\ call.res.src = {}
        /\ call.res.reads = 0
        /\ call.res.stockReads = 0

C1_Witness ==
    /\ call.tool = "getMyInvoicePdf"
    /\ call.sess = SessThrows
    /\ call.args.billingDocument = "D1"
    /\ call.fault
    /\ \E r \in invoice : r.billingDocument = "D1"
    /\ call.res.success = "false"
    /\ call.res.error = << MsgAuthFailed >>

\* C2: every invoice line returned by, or aggregated into the result of, a
\* user-scoped tool called as identity U carries U's name as billToPartyCode,
\* for every combination of arguments; a line of another identity never
\* reaches U.
C2_ScopedToCaller ==
    (call.tool \in UserToolNames /\ call.sess.kind = "user") =>
        /\ \A r \in invoice : r.id \in call.res.src => r.billToPartyCode = call.sess.name
        /\ \A i \in 1..Len(call.res.data) :
              "billToPartyCode" \in DOMAIN call.res.data[i]
                  => call.res.data[i].billToPartyCode = call.sess.name
        /\ \A u \in Users \ {call.sess.name} :
              { r.id : r \in { x \in invoice : x.billToPartyCode = u } } \cap call.res.src = {}

C2_Witness ==
    /\ call.tool = "getMyInvoiceHistory"
    /\ call.sess = SessUser("BOLT")
    /\ call.args.fromDate = DDate(Today - DaysPerYear)
    /\ call.res.src = {3}
    /\ \E r \in invoice : r.billToPartyCode = "ACME" /\ r.invoiceDate >= Today - DaysPerYear

\* C3: getMyInvoiceDetails and getMyInvoicePdf, called as U for a billing
\* document that exists but belongs to another identity, return success =
\* false with the not-found message and a null payload, the same result as
\* for a billing document that does not exist, and do not throw.
C3_ForeignDocumentIsNotFound ==
    ( /\ call.tool \in {"getMyInvoiceDetails", "getMyInvoicePdf"}
      /\ call.sess.kind = "user"
      /\ ~call.fault
      /\ \E r \in invoice : r.billingDocument = Trim(call.args.billingDocument)
      /\ \A r \in invoice : r.billingDocument = Trim(call.args.billingDocument)
                              => r.billToPartyCode # call.sess.name ) =>
        /\ call.res.outcome = "returned"
        /\ call.res.success = "false"
        /\ call.res.error = << "No invoice found with billing document ID: ",
                               call.args.billingDocument, " for your account." >>
        /\ call.res.isNull
        /\ call.res.data = << >>
        /\ call.res.pdfUrl = << >>
        /\ call.res.src = {}
        /\ \A missing \in Execute(call.tool, [call.args EXCEPT !.billingDocument = "D9"],
                                  call.sess, invoice, stock, FALSE) :
              [missing EXCEPT !.error = << >>] = [call.res EXCEPT !.error = << >>]

C3_Witness ==
    /\ call.tool = "getMyInvoicePdf"
    /\ call.sess = SessUser("BOLT")
    /\ call.args.billingDocument = " D1 "
    /\ \E r \in invoice : r.billingDocument = "D1" /\ r.billToPartyCode = "ACME"
    /\ call.res.success = "false"
    /\ call.res.reads = 1

\* C4: a turn never executes more than 7 model steps, even when every step
\* requests tools; when the cap stops the turn, the output of the 7th step is
\* in the response stream and the turn is finished, not failed.
C4_StepCap ==
    /\ steps <= 7
    /\ (steps = 7 /\ phase # "tools") =>
          /\ phase = "finished"
          /\ 7 \in streamed
          /\ response.status = 200
          /\ response.finishReason \in {"tool-calls", "stop"}

C4_Witness ==
    /\ steps = 7
    /\ phase = "finished"
    /\ requested > 0
    /\ streamed = 1..7
    /\ response.finishReason = "tool-calls"

\* C5: every received turn eventually reaches finished or error, given that
\* model calls and tool calls return or fail; and once a model step has
\* requested no tool, no further model step is executed in the turn.
C5_TurnTerminates ==
    /\ (phase = "received") ~> (phase \in {"finished", "error"})
    /\ [][requested = 0 => steps' # steps + 1]_vars

C5_Witness ==
    /\ phase = "finished"
    /\ requested = 0
    /\ steps > 1
    /\ response.finishReason = "stop"

\* C6: an invocation of a catalog tool, with any arguments and under any
\* identity, leaves the invoice and the stock record sets as they were.
C6_ToolsAreReadOnly ==
    [][call' # call => (invoice' = invoice /\ stock' = stock)]_vars

C6_Witness ==
    /\ call.tool = "getMyProfile"
    /\ call.res.success = "true"
    /\ call.res.src # {}
    /\ invoice # {}
    /\ stock # {}

\* C7: listCustomerInvoices, listMaterialInvoices and getMyInvoiceHistory use
\* limit 50 when limit is absent or <= 0 and min(limit, 200) otherwise, offset
\* 0 when offset is absent or <= 0 and the given offset otherwise; no value is
\* rejected; and no more rows than the effective limit are returned.
C7_SafePagination ==
    ( /\ call.tool \in {"listCustomerInvoices", "listMaterialInvoices", "getMyInvoiceHistory"}
      /\ ~call.fault
      /\ call.tool \in UserToolNames => call.sess.kind = "user" ) =>
        LET limit == call.args.limit
            offset == call.args.offset
            effectiveLimit == IF IsSome(limit) /\ Val(limit) > 0
                              THEN (IF Val(limit) < 200 THEN Val(limit) ELSE 200) ELSE 50
            effectiveOffset == IF IsSome(offset) /\ Val(offset) > 0 THEN Val(offset) ELSE 0
        IN  /\ call.res.outcome = "returned"
            /\ call.res.success # "false"
            /\ call.res.limit = Some(effectiveLimit)
            /\ call.res.offset = Some(effectiveOffset)
            /\ Len(call.res.data) <= effectiveLimit

C7_Witness ==
    /\ call.tool = "listMaterialInvoices"
    /\ call.args.limit = Some(201)
    /\ call.args.offset = Some(0 - 1)
    /\ call.res.limit = Some(200)
    /\ call.res.offset = Some(0)
    /\ call.res.data # << >>

\* C8: every tool that accepts a limit clamps a limit above its documented
\* cap to the cap, uses its documented default when limit is absent or <= 0,
\* never fails because of the limit, and returns no more entries than the
\* effective limit.
C8_LimitClampedAsDocumented ==
    LET LimitTools ==
            {"getTopCustomersByRevenue", "getMyRecentInvoices", "getMyPurchasesByMaterial",
             "searchStock", "getCustomerGrowth", "getTopProducts", "getStockLeadTimeAnalysis",
             "getStockValueByDesign", "getStockAgingReport", "getExcessStockReport"}
        Capped == {"getTopCustomersByRevenue", "getMyRecentInvoices",
                   "getMyPurchasesByMaterial", "searchStock"}
        DocumentedCap(t) == IF t \in {"getMyRecentInvoices", "searchStock"} THEN 50 ELSE 100
        DocumentedDefault(t) ==
            CASE t \in {"getMyRecentInvoices", "getTopProducts"} -> 10
              [] t = "searchStock" -> 50
              [] t = "getStockAgingReport" -> 30
              [] OTHER -> 20
        limit == call.args.limit
    IN  ( /\ call.tool \in LimitTools
          /\ ~call.fault
          /\ call.tool \in UserToolNames => call.sess.kind = "user" ) =>
            /\ call.res.outcome = "returned"
            /\ call.res.success # "false"
            /\ IsSome(call.res.limit)
            /\ (~IsSome(limit) \/ Val(limit) <= 0)
                  => call.res.limit = Some(DocumentedDefault(call.tool))
            /\ (IsSome(limit) /\ Val(limit) > 0 /\ call.tool \in Capped) =>
                  call.res.limit = Some(IF Val(limit) < DocumentedCap(call.tool)
                                        THEN Val(limit) ELSE DocumentedCap(call.tool))
            /\ Len(call.res.data) <= Val(call.res.limit)

\* C9: the rows listCustomerInvoices, listMaterialInvoices and
\* getMyInvoiceHistory return for a range all have fromDate <= invoiceDate <=
\* toDate, both bounds included; filtering the returned rows by the same range
\* again removes none; a row dated exactly on a bound is not left out.
C9_DateRangeInclusive ==
    ( /\ call.tool \in {"listCustomerInvoices", "listMaterialInvoices", "getMyInvoiceHistory"}
      /\ call.res.outcome = "returned"
      /\ call.res.success # "false" ) =>
        LET from == call.args.fromDate
            to == call.args.toDate
            InRange(r) ==
                /\ from.k = "parseable" =>
                      (r.invoiceDate # NullDate /\ from.d + from.shift <= r.invoiceDate)
                /\ to.k = "parseable" =>
                      (r.invoiceDate # NullDate /\ r.invoiceDate <= to.d + to.shift)
            Visible(r) == call.tool \in UserToolNames => r.billToPartyCode = call.sess.name
            unpaged == /\ call.args.limit = None /\ call.args.offset = None
                       /\ call.args.billToPartyCode = None /\ call.args.billToParty = None
                       /\ call.args.material = None /\ call.args.regionZone = None
                       /\ call.args.ainocularDesign = None /\ call.args.ainocularShade = None
        IN  /\ \A i \in 1..Len(call.res.data) : InRange(call.res.data[i])
            /\ SelectSeq(call.res.data, InRange) = call.res.data
            /\ unpaged => call.res.src = { r.id : r \in { x \in invoice : InRange(x) /\ Visible(x) } }

C9_Witness ==
    /\ call.tool = "listCustomerInvoices"
    /\ call.args.fromDate = DDate(Today - DaysPerYear)
    /\ call.args.toDate = DDateTime(Today - 11)
    /\ \E i \in 1..Len(call.res.data) : call.res.data[i].invoiceDate = Today - DaysPerYear
    /\ \E i \in 1..Len(call.res.data) : call.res.data[i].invoiceDate = Today - 10
    /\ \E r \in invoice : r.id \notin call.res.src

\* C10: a call whose fromDate or toDate is null, empty or unparseable returns
\* what the same call returns with that argument omitted, and neither throws
\* nor fails because of it; a user-scoped tool still returns only the
\* caller's lines.
C10_UnparseableDateIsAbsent ==
    LET DateTools ==
            {"listCustomerInvoices", "listMaterialInvoices", "getCustomerAmountSummary",
             "getInvoiceKpis", "getTopCustomersByRevenue", "getRevenueByRegion",
             "getAgentPerformance", "getFabricPerformanceByEndUse", "getPatternPerformance",
             "getMyInvoiceHistory", "getMyInvoiceSummary", "getMyPurchasesByMaterial"}
        Omit(v) == IF v.k \in {"null", "empty", "invalid"} THEN DUndef ELSE v
        omitted == [call.args EXCEPT !.fromDate = Omit(@), !.toDate = Omit(@)]
    IN  (call.tool \in DateTools /\ omitted # call.args) =>
            /\ call.res \in Execute(call.tool, omitted, call.sess, invoice, stock, call.fault)
            /\ Execute(call.tool, call.args, call.sess, invoice, stock, call.fault)
                  = Execute(call.tool, omitted, call.sess, invoice, stock, call.fault)
            /\ ~call.fault => call.res.outcome = "returned"
            /\ (~call.fault /\ call.res.success = "false") => call.sess.kind # "user"
            /\ (call.tool \in UserToolNames /\ call.sess.kind = "user") =>
                  \A r \in invoice : r.id \in call.res.src => r.billToPartyCode = call.sess.name

C10_Witness ==
    /\ call.tool = "getMyInvoiceSummary"
    /\ call.sess = SessUser("ACME")
    /\ call.args.fromDate = DInvalid
    /\ call.args.toDate = DDateTime(Today - 11)
    /\ 1 \in call.res.src
    /\ \E r \in invoice : r.billToPartyCode = "ACME" /\ r.id \notin call.res.src
    /\ \E r \in invoice : r.billToPartyCode = "BOLT"

\* C11: every entry of getRegionGrowth and getCustomerGrowth reports, for its
\* key, current and previous as the revenue summed over the two windows; its
\* growth percentage is (current - previous) / previous * 100 to the nearest
\* hundredth when previous is not zero (200 -> 150 gives -25.00), and 100 when
\* previous is zero and current > 0, 0 when both are zero (0 -> 100 gives
\* 100); the call returns, it does not fail on a zero base.
C11_GrowthPercentage ==
    LET Abs(x) == IF x < 0 THEN 0 - x ELSE x
        Revenue(lo, hi, Match(_)) ==
            SumOver({ r \in invoice : /\ r.invoiceDate # NullDate
                                      /\ lo <= r.invoiceDate /\ r.invoiceDate <= hi
                                      /\ Match(r) }, "netAmountInr")
        Ok(e, current, previous) ==
            /\ e.currentRevenue = current
            /\ e.previousRevenue = previous
            /\ previous # 0 =>
                  2 * Abs(e.growthPercentage * previous - (current - previous) * 100 * 100)
                      <= Abs(previous)
            /\ (previous = 0 /\ current > 0) => e.growthPercentage = 100 * 100
            /\ (previous = 0 /\ ~(current > 0)) => e.growthPercentage = 0
        data == call.res.data
    IN  /\ (call.tool \in {"getRegionGrowth", "getCustomerGrowth"} /\ ~call.fault) =>
              /\ call.res.outcome = "returned"
              /\ GrowthPct(150, 200) = 0 - 2500
              /\ GrowthPct(100, 0) = 100 * 100
              /\ \A c \in (0 - 2)..0 : GrowthPct(c, 0) = 0
        /\ (call.tool = "getRegionGrowth" /\ call.res.outcome = "returned") =>
              \A i \in 1..Len(data) :
                  Ok(data[i],
                     Revenue(Today - DaysPerYear, Today,
                             LAMBDA r : r.regionZone = data[i].key),
                     Revenue(Today - 2 * DaysPerYear, Today - DaysPerYear,
                             LAMBDA r : r.regionZone = data[i].key))
        /\ (call.tool = "getCustomerGrowth" /\ call.res.outcome = "returned") =>
              \A i \in 1..Len(data) :
                  Ok(data[i],
                     Revenue(Today - DaysPerYear, Today,
                             LAMBDA r : << r.billToPartyCode, r.billToParty >> = data[i].key),
                     Revenue(Today - 2 * DaysPerYear, Today - DaysPerYear,
                             LAMBDA r : r.billToPartyCode = data[i].key[1]))

C11_Witness ==
    /\ call.tool = "getRegionGrowth"
    /\ Len(call.res.data) = 2
    /\ \E i \in 1..2 : /\ call.res.data[i].previousRevenue = 0
                       /\ call.res.data[i].currentRevenue = 100
                       /\ call.res.data[i].growthPercentage = 100 * 100
    /\ \E i \in 1..2 : /\ call.res.data[i].previousRevenue = 300
                       /\ call.res.data[i].currentRevenue = 200
                       /\ call.res.data[i].growthPercentage = 0 - 3333

C13_ExcessIsCoverageAtLeastThreshold ==
    ( /\ call.tool = "getExcessStockReport"
      /\ call.res.outcome = "returned"
      /\ call.args.limit = None ) =>
        LET threshold == IF IsSome(call.args.coverageMonthsThreshold)
                         THEN Val(call.args.coverageMonthsThreshold) ELSE 6
            Sold(m) == SumOver({ r \in invoice : /\ r.material = m /\ r.invoiceDate # NullDate
                                                 /\ r.invoiceDate >= Today - 6 * DaysPerMonth },
                               "billedQuantity")
            Excess(s) == /\ s.stockInMeters > 0
                         /\ \/ Sold(s.material) = 0
                            \/ 6 * s.stockInMeters >= threshold * Sold(s.material)
        IN  { call.res.data[i].material : i \in 1..Len(call.res.data) }
                = { s.material : s \in { x \in stock : Excess(x) } }

C15_StockTurnRatio ==
    (call.tool = "getStockTurnRatio" /\ ~call.fault) =>
        LET Abs(x) == IF x < 0 THEN 0 - x ELSE x
            sold == SumOver({ r \in invoice : /\ r.invoiceDate # NullDate
                                              /\ r.invoiceDate >= Today - DaysPerYear },
                            "billedQuantity")
            onHand == SumOver({ s \in stock : s.stockInMeters # NullNum }, "stockInMeters")
            data == call.res.data
        IN  /\ call.res.outcome = "returned"
            /\ Len(data) = 1
            /\ onHand = 0 =>
                  /\ data[1].explanation = "No stock available to calculate ratio."
                  /\ ~data[1].isText
                  /\ data[1].stockTurnRatio = 0
            /\ onHand # 0 =>
                  /\ data[1].isText
                  /\ 2 * Abs(data[1].stockTurnRatio * onHand - 100 * sold) <= Abs(onHand)
                  /\ data[1].explanation # "No stock available to calculate ratio."

C15_Witness ==
    /\ call.tool = "getStockTurnRatio"
    /\ Cardinality(stock) = 2
    /\ \A s \in stock : s.stockInMeters \in {0, NullNum}
    /\ \E r \in invoice : r.invoiceDate = Today - 10
    /\ call.res.outcome = "returned"
    /\ call.res.data[1].explanation = "No stock available to calculate ratio."

\* C16: getInvoicePdfLink for a billing document id D whose trimmed value is
\* the billingDocument of at least one invoice line returns success = true
\* with pdfUrl = bucket base, "/", trim(D), ".pdf"; when no invoice line has
\* that billingDocument it returns success = false with pdfUrl = null.
C16_PdfLink ==
    (call.tool = "getInvoicePdfLink" /\ ~call.fault) =>
        LET D == call.args.billingDocument
            lines == { r \in invoice : r.billingDocument = Trim(D) }
        IN  /\ call.res.outcome = "returned"
            /\ lines # {} =>
                  /\ call.res.success = "true"
                  /\ call.res.pdfUrl =
                        << "https://ainoc-chatbot-files-bucket.s3.us-east-2.amazonaws.com",
                           "/", Trim(D), ".pdf" >>
                  /\ ~call.res.isNull
                  /\ call.res.reads = 1
            /\ lines = {} =>
                  /\ call.res.success = "false"
                  /\ call.res.pdfUrl = << >>
                  /\ call.res.isNull
                  /\ call.res.error # << >>

C16_Witness ==
    /\ call.tool = "getInvoicePdfLink"
    /\ call.args.billingDocument = " D1 "
    /\ call.res.success = "true"
    /\ call.res.pdfUrl[3] = "D1"
    /\ call.res.pdfUrl[4] = ".pdf"
    /\ \E r \in invoice : r.billingDocument # "D1"

\* C17: getInvoicePdfLink, and getMyInvoicePdf / getMyInvoiceDetails called
\* by an authenticated user, given an empty or whitespace-only
\* billingDocument, return success = false with the message "Billing
\* document ID is required." and a null payload; they do not throw and issue
\* no read, whether or not the storage is available.
C17_BlankDocumentIsTypedFailure ==
    ( /\ call.tool \in {"getInvoicePdfLink", "getMyInvoicePdf", "getMyInvoiceDetails"}
      /\ call.tool \in UserToolNames => call.sess.kind = "user"
      /\ call.args.billingDocument \in {"", "  "} ) =>
        /\ call.res.outcome = "returned"
        /\ call.res.success = "false"
        /\ call.res.error = << "Billing document ID is required." >>
        /\ call.res.isNull
        /\ call.res.data = << >>
        /\ call.res.pdfUrl = << >>
        /\ call.res.reads = 0
        /\ call.res.stockReads = 0

C17_Witness ==
    /\ call.tool = "getMyInvoiceDetails"
    /\ call.sess = SessUser("ACME")
    /\ call.args.billingDocument = "  "
    /\ call.fault
    /\ call.res.success = "false"
    /\ call.res.reads = 0
    /\ invoice # {}

\* C18: the stock import is an upsert keyed by material: a run over a sheet
\* of distinct materials completes without error, including when a material
\* of the sheet is already stored (M with 500, then M with 300), and leaves
\* for each material of the sheet exactly one stock row, with the quantity of
\* the sheet; the stock set never holds two rows of one material.
C18_IngestIsUpsert ==
    LET sheet == importRun.sheet
        Material(k) == toString(sheet[k].material)
        valid == { k \in 1..Len(sheet) : Material(k) # None }
        distinct == \A k, l \in valid : Material(k) = Material(l) => k = l
    IN  /\ \A a, b \in stock : a.material = b.material => a = b
        /\ (importRun.status \in {"completed", "failed"} /\ distinct) =>
              /\ importRun.status = "completed"
              /\ \A k \in valid :
                    /\ Cardinality({ x \in stock : x.material = Val(Material(k)) }) = 1
                    /\ \A x \in stock : x.material = Val(Material(k)) =>
                          x.stockInMeters = toNumeric(sheet[k].stock_in_meters)

\* C19: a malformed chat request (a body that is not JSON, no messages
\* field, messages that is not a list, an empty list, or a list whose entries
\* are not role-tagged messages) is answered with status 400 and an error
\* body, and neither the model nor any tool is invoked for it.
C19_MalformedIsClientError ==
    (request \in Requests \ {"valid"} /\ phase # "received") =>
        /\ phase = "error"
        /\ response.status = 400
        /\ response.body \in {"Invalid JSON in request body", "Invalid request"}
        /\ steps = 0
        /\ streamed = {}
        /\ call = NoCall

\* C20: a failure thrown by a tool's execute during a step fails only that
\* invocation: the response stays the 200 stream and the turn is not in
\* error, the step completes and may be followed by a further model step
\* within the 7-step budget, and what is fed back as the invocation's result
\* is a generic failure that carries none of the error's internal text.
C20_ToolFailureIsContained ==
    (phase \in {"tools", "model", "finished"} /\ call # NoCall /\ call.res.outcome = "threw") =>
        /\ response.status = 200
        /\ response.finishReason # "error"
        /\ steps <= maxSteps
        /\ call.output.type = "error-text"
        /\ call.output.value # QueryErrorMessage

\* C21: whenever the error banner is shown after more than
\* maxConsecutiveErrors (2) turns have failed in a row, the banner offers the
\* Reset Chat action.
C21_ResetOfferedAfterThreshold ==
    (hasError /\ chat.failures > maxConsecutiveErrors) => showReset

\* C30: in the chat page, over every sequence of submit, error, finish, retry
\* and manual reset: consecutiveErrors stays within 0..maxConsecutiveErrors;
\* a finished turn sets it to 0 and hides the reset notice; the error that
\* would raise it to 3 clears the message list, shows the reset notice and
\* sets the counter to 0; an error met with the counter below 2 raises the
\* counter by one and leaves the message list as it is.
C30_CounterDiscipline ==
    [][ /\ chat'.consecutiveErrors \in 0..maxConsecutiveErrors
        /\ (isLoading /\ chat'.status = "ready") =>
              /\ chat'.consecutiveErrors = 0
              /\ ~chat'.showResetNotice
        /\ (isLoading /\ chat'.status = "error") =>
              IF chat.consecutiveErrors = maxConsecutiveErrors
              THEN /\ chat'.messages = 0
                   /\ chat'.showResetNotice
                   /\ chat'.consecutiveErrors = 0
              ELSE /\ chat'.messages = chat.messages
                   /\ chat'.consecutiveErrors = chat.consecutiveErrors + 1
                   /\ chat'.showResetNotice = chat.showResetNotice
      ]_vars

\* the third failure in a row has cleared the chat and shown the notice
C30_Witness ==
    /\ chat.status = "error"
    /\ chat.failures = maxConsecutiveErrors + 1
    /\ chat.messages = 0
    /\ chat.showResetNotice
    /\ chat.consecutiveErrors = 0

\* C22: the invocations a model step requests complete in any order, and
\* while a model call is in flight after a step, or the turn has finished,
\* no invocation of that step is outstanding and the step's results hold
\* exactly one result for each requested tool-call identifier; a model step
\* begins only from that situation, so model steps do not overlap with the
\* tool calls of the step before.
C22_ResultsBeforeNextStep ==
    /\ (phase \in {"model", "finished"} /\ requested # NoStep) =>
          /\ pending = {}
          /\ Len(results) = requested
          /\ \A id \in 1..requested :
                Cardinality({ k \in 1..Len(results) : results[k].toolCallId = id }) = 1
    /\ phase = "tools" =>
          /\ Len(results) + Cardinality(pending) = requested
          /\ \A k \in 1..Len(results) : results[k].toolCallId \in (1..requested) \ pending

\* a second step's model call is in flight after the two invocations of the
\* first step completed in the order 2, 1, the first to complete having failed
\* and the second succeeded
C22_Witness ==
    /\ phase = "model"
    /\ steps = 1
    /\ requested = 2
    /\ Len(results) = 2
    /\ results[1].toolCallId = 2
    /\ results[2].toolCallId = 1
    /\ results[1].success = "false"
    /\ results[2].success = "true"

\* C23: a listing tool (listCustomerInvoices, listMaterialInvoices,
\* getMyInvoiceHistory, getMyRecentInvoices) returns its rows in one order:
\* a second call with the same arguments on the unchanged store returns the
\* same sequence, also when matching rows share an invoiceDate, and the page
\* at the next offset (offset + limit) holds no row of this page.
C23_ListingOrderIsDeterministic ==
    (/\ call.tool \in {"listCustomerInvoices", "listMaterialInvoices",
                       "getMyInvoiceHistory", "getMyRecentInvoices"}
     /\ call.res.outcome = "returned"
     /\ call.res.success # "false") =>
        /\ \A again \in Execute(call.tool, call.args, session, invoice, stock, FALSE) :
              again.data = call.res.data
        /\ (IsSome(call.res.limit) /\ IsSome(call.res.offset)) =>
              \A page \in Execute(call.tool,
                                  [call.args EXCEPT
                                      !.offset = Some(Val(call.res.offset) + Val(call.res.limit))],
                                  session, invoice, stock, FALSE) :
                 page.src \cap call.res.src = {}

\* C24: the unscoped invoice tools getInvoiceById,
\* getInvoiceByBillingDocumentAndItem, listCustomerInvoices,
\* getCustomerAmountSummary and getInvoicePdfLink do not resolve the session:
\* the result of a call is a result of the same call under every other
\* session (none, failing, customer A, customer B), rows and PDF link alike.
C24_UnscopedToolsIgnoreSession ==
    (call.tool \in {"getInvoiceById", "getInvoiceByBillingDocumentAndItem",
                    "listCustomerInvoices", "getCustomerAmountSummary",
                    "getInvoicePdfLink"}) =>
        /\ call.sess = SessNone
        /\ \A s \in Sessions :
              call.res \in Execute(call.tool, call.args, s, invoice, stock, call.fault)

\* customer ACME, and a caller without a session, have received an invoice
\* line of customer BOLT from listCustomerInvoices, or the PDF link of an
\* invoice of BOLT
C24_Witness ==
    /\ session \in {SessUser("ACME"), SessNone}
    /\ \/ /\ call.tool = "listCustomerInvoices"
          /\ \E k \in 1..Len(call.res.data) : call.res.data[k].billToPartyCode = "BOLT"
       \/ /\ call.tool = "getInvoicePdfLink"
          /\ IsSome(call.res.pdfUrl)
          /\ \E r \in invoice : /\ r.billingDocument = Trim(call.args.billingDocument)
                                /\ r.billToPartyCode = "BOLT"

\* C25: every user-scoped tool call of a turn works with the identity the
\* session resolves to at the time of that call, never with the identity an
\* earlier call of the turn resolved: once the session is no longer valid a
\* user-scoped call returns success = false, and neither the change of the
\* session nor a later call alters the results recorded before it.
C25_IdentityResolvedPerCall ==
    [][ /\ (phase = "tools" /\ pending' # pending /\ call'.tool \in UserToolNames) =>
              /\ call'.sess = session
              /\ (session.kind # "user") => (call'.res.success = "false")
        /\ (phase = "tools" /\ pending' # pending) =>
              /\ Len(results') = Len(results) + 1
              /\ SubSeq(results', 1, Len(results)) = results
              /\ results'[Len(results')].success = call'.res.success
        /\ (session' # session) => (results' = results /\ call' = call)
      ]_vars

\* in the second step of a turn a user-scoped call succeeded, the session
\* was then lost, and the next user-scoped call of the step failed while the
\* first result is still recorded as a success
C25_Witness ==
    /\ steps = 2
    /\ Len(results) = 2
    /\ results[1].success = "true"
    /\ results[2].success = "false"
    /\ call.tool \in UserToolNames
    /\ call.sess = SessNone
    /\ session = SessNone

\* C26: in getRegionGrowth, getCustomerGrowth and getAgentGrowth the two
\* 12-month windows are disjoint: no invoice line, whatever its date, is
\* counted in the current and in the previous period, so for getRegionGrowth
\* current plus previous revenue of a region is the net amount of its lines
\* of the last two years, each counted once.
C26_GrowthWindowsDisjoint ==
    (/\ call.tool \in {"getRegionGrowth", "getCustomerGrowth", "getAgentGrowth"}
     /\ call.res.outcome = "returned") =>
        /\ CurrentWindow(invoice) \cap PreviousWindow(invoice) = {}
        /\ call.tool = "getRegionGrowth" =>
              \A i \in 1..Len(call.res.data) :
                 call.res.data[i].currentRevenue + call.res.data[i].previousRevenue
                    = SumOver({ r \in invoice : /\ r.invoiceDate # NullDate
                                                /\ r.invoiceDate >= Today - 2 * DaysPerYear
                                                /\ r.invoiceDate <= Today
                                                /\ r.regionZone = call.res.data[i].key },
                              "netAmountInr")

\* C27 as claimed: each growth tool returns exactly one entry for every
\* dimension key with a line in the current 12-month window and none for any
\* other key, with previous revenue 0 for a key without a line in the
\* previous window (calls with a negative limit set aside).
C27_OneEntryPerCurrentKey ==
    LET data == call.res.data
        InCurrent(r) == /\ r.invoiceDate # NullDate
                        /\ r.invoiceDate >= Today - DaysPerYear /\ r.invoiceDate <= Today
        InPrevious(r) == /\ r.invoiceDate # NullDate
                         /\ r.invoiceDate >= Today - 2 * DaysPerYear
                         /\ r.invoiceDate <= Today - DaysPerYear
        KeyOf(r) == CASE call.tool = "getRegionGrowth" -> r.regionZone
                      [] call.tool = "getCustomerGrowth" -> << r.billToPartyCode, r.billToParty >>
                      [] OTHER -> << r.agentCode, r.agentName >>
        DimOf(r) == CASE call.tool = "getRegionGrowth" -> r.regionZone
                      [] call.tool = "getCustomerGrowth" -> r.billToPartyCode
                      [] OTHER -> r.agentCode
        currentKeys == { KeyOf(r) : r \in { x \in invoice : InCurrent(x) } }
    IN  (/\ call.tool \in {"getRegionGrowth", "getCustomerGrowth", "getAgentGrowth"}
         /\ call.res.outcome = "returned"
         /\ ~(IsSome(call.args.limit) /\ Val(call.args.limit) < 0)) =>
            /\ { data[i].key : i \in 1..Len(data) } = currentKeys
            /\ Len(data) = Cardinality(currentKeys)
            /\ \A i \in 1..Len(data) :
                  (\A r \in invoice : ~(InPrevious(r) /\ \E c \in invoice :
                                           /\ InCurrent(c) /\ KeyOf(c) = data[i].key
                                           /\ DimOf(c) = DimOf(r)))
                      => data[i].previousRevenue = 0

\* C27 as amended: getRegionGrowth and getAgentGrowth return exactly one entry
\* for every dimension key with a line in the current window and none for
\* any other key; getCustomerGrowth returns the part of that list which
\* slice(0, limit || 20) keeps after the sort by absolute growth, largest
\* first; previous revenue is 0 for a key without a line in the previous
\* window.
C27_EntriesOfCurrentKeys ==
    LET data == call.res.data
        InCurrent(r) == /\ r.invoiceDate # NullDate
                        /\ r.invoiceDate >= Today - DaysPerYear /\ r.invoiceDate <= Today
        InPrevious(r) == /\ r.invoiceDate # NullDate
                         /\ r.invoiceDate >= Today - 2 * DaysPerYear
                         /\ r.invoiceDate <= Today - DaysPerYear
        KeyOf(r) == CASE call.tool = "getRegionGrowth" -> r.regionZone
                      [] call.tool = "getCustomerGrowth" -> << r.billToPartyCode, r.billToParty >>
                      [] OTHER -> << r.agentCode, r.agentName >>
        DimOf(r) == CASE call.tool = "getRegionGrowth" -> r.regionZone
                      [] call.tool = "getCustomerGrowth" -> r.billToPartyCode
                      [] OTHER -> r.agentCode
        currentKeys == { KeyOf(r) : r \in { x \in invoice : InCurrent(x) } }
        n == Cardinality(currentKeys)
        limit == IF IsSome(call.args.limit) /\ Val(call.args.limit) # 0
                 THEN Val(call.args.limit) ELSE 20
        kept == IF call.tool # "getCustomerGrowth" THEN n
                ELSE IF limit >= 0 THEN Min(limit, n) ELSE Max(0, n + limit)
        Growth(k) ==
            SumOver({ r \in invoice : InCurrent(r) /\ KeyOf(r) = k }, "netAmountInr")
            - SumOver({ r \in invoice : /\ InPrevious(r)
                                        /\ \E c \in invoice : /\ InCurrent(c) /\ KeyOf(c) = k
                                                              /\ DimOf(c) = DimOf(r) },
                      "netAmountInr")
    IN  (/\ call.tool \in {"getRegionGrowth", "getCustomerGrowth", "getAgentGrowth"}
         /\ call.res.outcome = "returned") =>
            /\ { data[i].key : i \in 1..Len(data) } \subseteq currentKeys
            /\ \A i, j \in 1..Len(data) : data[i].key = data[j].key => i = j
            /\ Len(data) = kept
            /\ \A k \in currentKeys \ { data[i].key : i \in 1..Len(data) } :
                  \A i \in 1..Len(data) : Growth(k) <= data[i].absoluteGrowth
            /\ \A i \in 1..Len(data) :
                  (\A r \in invoice : ~(InPrevious(r) /\ \E c \in invoice :
                                           /\ InCurrent(c) /\ KeyOf(c) = data[i].key
                                           /\ DimOf(c) = DimOf(r)))
                      => data[i].previousRevenue = 0

\* getRegionGrowth on a store where North has lines in the current window
\* only and South in the previous window only: one entry, North with
\* previous revenue 0; or getCustomerGrowth cut to one of two customers
C27_Witness ==
    /\ call.res.outcome = "returned"
    /\ \/ /\ call.tool = "getRegionGrowth"
          /\ Len(call.res.data) = 1
          /\ call.res.data[1].key = "North"
          /\ call.res.data[1].previousRevenue = 0
          /\ \E r \in invoice : r.regionZone = "South" /\ r.invoiceDate = Today - 400
       \/ /\ call.tool = "getCustomerGrowth"
          /\ call.args.limit = Some(1)
          /\ Len(call.res.data) = 1
          /\ \E r \in invoice : /\ r.invoiceDate = Today - 20
                                /\ << r.billToPartyCode, r.billToParty >> # call.res.data[1].key

\* C28: getStockSalesAnalysis called with type "excess_stock", which its
\* input schema accepts, returns the empty list whatever the stock and the
\* invoice record sets hold.
C28_ExcessStockTypeIsEmpty ==
    (/\ call.tool = "getStockSalesAnalysis"
     /\ call.args.type = "excess_stock"
     /\ call.res.outcome = "returned") =>
        /\ call.res.data = << >>
        /\ \A stk \in StockStores \cup {StockUniverse} :
              \A res \in getStockSalesAnalysis(call.args, invoice, stk, FALSE) :
                 res.data = << >>

\* the type "excess_stock" was asked on a store where material M200 has 10
\* metres in stock and sold 1 in the last three months
C28_Witness ==
    /\ call.tool = "getStockSalesAnalysis"
    /\ call.args.type = "excess_stock"
    /\ call.args.type \in AnalysisTypes
    /\ call.res.outcome = "returned"
    /\ \E r \in invoice : r.material = "M200" /\ r.invoiceDate = Today - 20
    /\ \E x \in stock : x.material = "M200" /\ x.stockInMeters = 10

\* C29: getInactiveCustomers(monthsInactive = N), with cutoff = today minus N
\* months: every customer returned has a non-null billToPartyCode, at least
\* one invoice line dated within [cutoff minus 1 year, cutoff] and no invoice
\* line dated on or after cutoff; and every customer code meeting these
\* three conditions is returned.
C29_InactiveCustomersExact ==
    (/\ call.tool = "getInactiveCustomers"
     /\ call.res.outcome = "returned") =>
        LET cutoff == Today - Val(call.args.monthsInactive) * DaysPerMonth
            dated == { r \in invoice : r.invoiceDate # NullDate }
            Meets(code) ==
                /\ code # NullText
                /\ \E r \in dated : /\ r.billToPartyCode = code
                                    /\ r.invoiceDate >= cutoff - DaysPerYear
                                    /\ r.invoiceDate <= cutoff
                /\ \A r \in dated : r.billToPartyCode = code => r.invoiceDate < cutoff
            returned == { call.res.data[i].key[1] : i \in 1..Len(call.res.data) }
        IN  /\ \A code \in returned : Meets(code)
            /\ \A code \in { r.billToPartyCode : r \in invoice } :
                  Meets(code) => code \in returned

\* three months were asked: BOLT, whose only line is a year old, is returned;
\* ACME, which bought ten days ago, and the walk-in line without a code, which
\* lies in the window, are left out
C29_Witness ==
    /\ call.tool = "getInactiveCustomers"
    /\ call.args.monthsInactive = Some(3)
    /\ call.res.outcome = "returned"
    /\ Len(call.res.data) = 1
    /\ call.res.data[1].key[1] = "BOLT"
    /\ \E r \in invoice : r.billToPartyCode = "ACME" /\ r.invoiceDate = Today - 10
    /\ \E r \in invoice : r.billToPartyCode = NullText /\ r.invoiceDate = Today - 400

====
